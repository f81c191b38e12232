-------------------------- MODULE EvaluationProofs --------------------------
(***************************************************************************)
(* The evaluation tools, proved for every number of seeded cases and of    *)
(* workers and any number of calls that fail: they are clients of the      *)
(* ledger like any other, the requests of a round use each seeded case     *)
(* once, and what the suite, the pack and the seeding report is true of    *)
(* the ledger.                                                             *)
(*                                                                         *)
(* The reports rest on three parts.  Every script is carried out on paper  *)
(* first: Takes says what a call does to the situation of a case, Leads    *)
(* what a script does, and each script of the suite and the pack Concludes *)
(* with its verdict.  Then the ledger is shown to agree with the situation *)
(* on paper at every call, so that calls fail from outside only.  Accounts *)
(* last: every script that is done has its report or its error.            *)
(***************************************************************************)
EXTENDS Evaluation, ChaincodeProofs

-----------------------------------------------------------------------------
(* The calls that scripts consist of. *)

\* The calls of a script whose transitions never take one action, the action
\* that its attempts are about.
ScriptCalls(action) ==
  [call : {"createDraft"}]
    \cup [call : {"upload"}, role : UserRoles, key : ScriptedKeys,
          supersedes : SUBSET ScriptedKeys]
    \cup [call : {"transition"}, role : UserRoles,
          rule : {rule \in TRANSITIONS : rule.action # action},
          keys : SUBSET ScriptedKeys]
    \cup [call : {"attempt"}, role : UserRoles,
          rule : {rule \in TRANSITIONS : rule.action = action},
          keys : SUBSET ScriptedKeys,
          expected : {"not_allowed", "missing_documents", "no_transition"}]
    \cup [call : {"finalize"}, override : {Undefined, "blocked"}]

USE DEF Applicant, Domestic, Coordination, Foreign

\* The call constructors make calls of scripts (Scripts: CreateDraft, Upload,
\* Supersede, Transition).
LEMMA CallsMade ==
  ASSUME NEW action, NEW type \in DOCUMENT_TYPES, NEW n \in {1, 2},
         NEW role \in {Applicant, Domestic, Coordination, Foreign},
         NEW rule \in TRANSITIONS, NEW keys \in SUBSET ScriptedKeys
  PROVE  /\ Key(type, n) \in ScriptedKeys
         /\ CreateDraft \in ScriptCalls(action)
         /\ UploadNth(role, type, n, {}) \in ScriptCalls(action)
         /\ Upload(role, type) \in ScriptCalls(action)
         /\ Supersede(role, type) \in ScriptCalls(action)
         /\ rule.action # action => Transition(role, rule, keys) \in ScriptCalls(action)
<1>1. /\ \A m \in {1, 2} : Key(type, m) \in ScriptedKeys
      /\ role \in UserRoles
  BY DEF Key, ScriptedKeys, UserRoles
<1>2. \A m \in {1, 2}, keyset \in SUBSET ScriptedKeys :
        UploadNth(role, type, m, keyset) \in ScriptCalls(action)
  BY <1>1 DEF UploadNth, ScriptCalls
<1>3. CreateDraft \in ScriptCalls(action)
  BY DEF CreateDraft, ScriptCalls
<1>4. Upload(role, type) \in ScriptCalls(action)
  BY <1>2 DEF Upload
<1>5. Supersede(role, type) \in ScriptCalls(action)
  BY <1>1, <1>2 DEF Supersede
<1>6. rule.action # action => Transition(role, rule, keys) \in ScriptCalls(action)
  BY <1>1 DEF Transition, ScriptCalls
<1> QED
  BY <1>1, <1>2, <1>3, <1>4, <1>5, <1>6

\* The rules that scripts apply are in the workflow table.
LEMMA RulesInTable ==
  /\ {SubmitCaseRule, RecordDomesticReviewRule, RequestMoreInformationRule,
      RespondToInformationRequestRule, ForwardToCoordinationRule,
      ForwardToForeignAuthorityRule, RecordForeignReviewRule, ApproveCaseRule,
      RejectCaseRule, InitiateNonSubstantiveAmendmentRule,
      InitiateSubstantiveAmendmentRule, IssueAssuranceRule, AmendAssuranceRule,
      RevokeAssuranceRule} \subseteq TRANSITIONS
  /\ SubmitCaseRule.action = "submit_case"
  /\ RecordDomesticReviewRule.action = "record_domestic_review"
  /\ ForwardToForeignAuthorityRule.action = "forward_to_foreign_authority"
  /\ \A rule \in TRANSITIONS : rule.action # Undefined
BY RuleActions DEF TRANSITIONS, WorkflowActions, Undefined, Rule, SubmitCaseRule, RecordDomesticReviewRule,
    ForwardToForeignAuthorityRule

\* The scripts, each of which creates its case first.
ScriptsOf(action) ==
  {s \in Seq(ScriptCalls(action)) : s # <<>> /\ s[1] = CreateDraft}

\* A script goes on with calls of its kind.
LEMMA ScriptContinues ==
  ASSUME NEW action, NEW s \in ScriptsOf(action),
         NEW t \in Seq(ScriptCalls(action))
  PROVE  s \o t \in ScriptsOf(action)
<1>1. s \in Seq(ScriptCalls(action)) /\ s # <<>> /\ s[1] = CreateDraft
  BY DEF ScriptsOf
<1> HIDE DEF ScriptCalls
<1>2. s \o t \in Seq(ScriptCalls(action))
  BY <1>1
<1>3. Len(s) >= 1
  BY <1>1
<1>4. (s \o t)[1] = s[1]
  BY <1>1, <1>3
<1>5. s \o t # <<>>
  BY <1>1, <1>3
<1> QED
  BY <1>1, <1>2, <1>4, <1>5 DEF ScriptsOf

\* The helpers that create and submit a case are the beginning of a script
\* (createDraftWithDocuments, buildSubmittedBaseline).
LEMMA CreationScripts ==
  ASSUME NEW action, NEW types \in Seq(DOCUMENT_TYPES)
  PROVE  /\ KeysOf(types) \subseteq ScriptedKeys
         /\ createDraftWithDocuments(types) \in ScriptsOf(action)
         /\ action # "submit_case" =>
              buildSubmittedBaseline(types) \in ScriptsOf(action)
         /\ action \notin {"submit_case", "record_domestic_review"} =>
              buildUnderDomesticReviewBaseline(types) \in ScriptsOf(action)
<1>1. KeysOf(types) \subseteq ScriptedKeys
  BY DEF KeysOf, Key, ScriptedKeys
<1>2. CreateDraft \in ScriptCalls(action)
  BY DEF CreateDraft, ScriptCalls
<1>3. \A i \in 1 .. Len(types) : Upload(Applicant, types[i]) \in ScriptCalls(action)
  BY DEF Upload, UploadNth, Key, ScriptedKeys, ScriptCalls, UserRoles
<1>4. [i \in DOMAIN types |-> Upload(Applicant, types[i])] \in Seq(ScriptCalls(action))
  BY <1>3
<1>5. createDraftWithDocuments(types) \in ScriptsOf(action)
  <2>1. <<CreateDraft>> \in ScriptsOf(action)
    BY <1>2 DEF ScriptsOf
  <2> QED
    BY <1>4, <2>1, ScriptContinues DEF createDraftWithDocuments
<1>6. action # "submit_case" =>
        buildSubmittedBaseline(types) \in ScriptsOf(action)
  <2>1. action # "submit_case" =>
          Transition(Applicant, SubmitCaseRule, KeysOf(types)) \in ScriptCalls(action)
    BY <1>1, RulesInTable DEF Transition, ScriptCalls, UserRoles
  <2>2. action # "submit_case" =>
          <<Transition(Applicant, SubmitCaseRule, KeysOf(types))>>
            \in Seq(ScriptCalls(action))
    BY <2>1
  <2> QED
    BY <1>5, <2>2, ScriptContinues DEF buildSubmittedBaseline
<1>7. action # "record_domestic_review" =>
        <<Transition(Domestic, RecordDomesticReviewRule, {})>>
          \in Seq(ScriptCalls(action))
  <2>1. action # "record_domestic_review" =>
          Transition(Domestic, RecordDomesticReviewRule, {}) \in ScriptCalls(action)
    BY RulesInTable DEF Transition, ScriptCalls, UserRoles
  <2> QED
    BY <2>1
<1>8. action \notin {"submit_case", "record_domestic_review"} =>
        buildUnderDomesticReviewBaseline(types) \in ScriptsOf(action)
  BY <1>6, <1>7, ScriptContinues DEF buildUnderDomesticReviewBaseline
<1> QED
  BY <1>1, <1>5, <1>6, <1>8

\* The parts of the scripts, none of which is an attempt.
LEMMA PartScripts ==
  LET Calls == ScriptCalls(Undefined)
  IN /\ \A n \in {1, 2} : Forwarding(n) \in Seq(Calls)
     /\ Approval \in Seq(Calls)
     /\ Issuance \in Seq(Calls)
     /\ RequestAmendment(InitiateNonSubstantiveAmendmentRule) \in Seq(Calls)
     /\ RenewedReview \in Seq(Calls)
     /\ Amendment \in Seq(Calls)
     /\ Revocation \in Seq(Calls)
     /\ \A role \in {Domestic, Foreign} : InformationRequest(role) \in Seq(Calls)
<1> DEFINE Calls == ScriptCalls(Undefined)
           Roles == {Applicant, Domestic, Coordination, Foreign}
           Types == {"coordination_forwarding_package", "foreign_regulator_response",
                     "assurance_instrument", "amendment_request_package",
                     "revocation_notice", "request_for_information_notice"}
<1>1. Types \subseteq DOCUMENT_TYPES
  BY DEF DOCUMENT_TYPES
<1>2. \A type \in Types, n \in {1, 2}, role \in Roles :
        /\ Key(type, n) \in ScriptedKeys
        /\ UploadNth(role, type, n, {}) \in Calls
        /\ Upload(role, type) \in Calls
        /\ Supersede(role, type) \in Calls
  BY <1>1, CallsMade, RulesInTable
<1>3. \A rule \in TRANSITIONS, keys \in SUBSET ScriptedKeys, role \in Roles :
        Transition(role, rule, keys) \in Calls
  BY <1>1, RulesInTable, CallsMade
<1> HIDE DEF Calls
<1>4. \A n \in {1, 2} : Forwarding(n) \in Seq(Calls)
  BY <1>2, <1>3, RulesInTable DEF Forwarding
<1>5. Approval \in Seq(Calls)
  BY <1>2, <1>3, RulesInTable DEF Approval
<1>6. Issuance \in Seq(Calls)
  BY <1>2, <1>3, RulesInTable DEF Issuance
<1>7. \A rule \in {InitiateNonSubstantiveAmendmentRule,
                    InitiateSubstantiveAmendmentRule} :
        RequestAmendment(rule) \in Seq(Calls)
  BY <1>2, <1>3, RulesInTable DEF RequestAmendment
<1>8. RenewedReview \in Seq(Calls)
  BY <1>2, <1>3, <1>4, <1>7, RulesInTable DEF RenewedReview
<1>9. Amendment \in Seq(Calls)
  BY <1>2, <1>3, RulesInTable DEF Amendment
<1>10. Revocation \in Seq(Calls)
  BY <1>2, <1>3, RulesInTable DEF Revocation
<1>11. \A role \in {Domestic, Foreign} : InformationRequest(role) \in Seq(Calls)
  BY <1>2, <1>3, RulesInTable DEF InformationRequest
<1> QED
  BY <1>4, <1>5, <1>6, <1>7, <1>8, <1>9, <1>10, <1>11 DEF Calls

\* The document lists of the tools consist of document types.
LEMMA DocumentLists ==
  /\ MINIMAL_SUBMISSION_DOCUMENT_TYPES \in Seq(DOCUMENT_TYPES)
  /\ FULL_SUBMISSION_DOCUMENT_TYPES \in Seq(DOCUMENT_TYPES)
  /\ ScreenshotDocumentTypes \in Seq(DOCUMENT_TYPES)
  /\ SubSeq(MINIMAL_SUBMISSION_DOCUMENT_TYPES, 1, 2) \in Seq(DOCUMENT_TYPES)
BY DEF MINIMAL_SUBMISSION_DOCUMENT_TYPES, FULL_SUBMISSION_DOCUMENT_TYPES,
       ScreenshotDocumentTypes, DOCUMENT_TYPES

\* The baselines that the scripts share.
LEMMA BaselineScripts ==
  ASSUME NEW types \in Seq(DOCUMENT_TYPES)
  PROVE  /\ createDraftWithDocuments(types) \in ScriptsOf(Undefined)
         /\ buildSubmittedBaseline(types) \in ScriptsOf(Undefined)
         /\ buildUnderDomesticReviewBaseline(types) \in ScriptsOf(Undefined)
         /\ buildUnderForeignReviewBaseline(types) \in ScriptsOf(Undefined)
         /\ buildIssuedBaseline(types) \in ScriptsOf(Undefined)
<1>1. /\ createDraftWithDocuments(types) \in ScriptsOf(Undefined)
      /\ buildSubmittedBaseline(types) \in ScriptsOf(Undefined)
      /\ buildUnderDomesticReviewBaseline(types) \in ScriptsOf(Undefined)
  BY CreationScripts DEF Undefined
<1>2. buildUnderForeignReviewBaseline(types) \in ScriptsOf(Undefined)
  BY <1>1, PartScripts, ScriptContinues DEF buildUnderForeignReviewBaseline
<1>3. buildIssuedBaseline(types) \in ScriptsOf(Undefined)
  BY <1>2, PartScripts, ScriptContinues DEF buildIssuedBaseline
<1> QED
  BY <1>1, <1>2, <1>3

\* The action that the attempts of each scenario are about.
AttemptedActions ==
  <<Undefined, Undefined, Undefined, Undefined, Undefined, Undefined,
    "record_domestic_review", "submit_case", "forward_to_foreign_authority">>

\* There are nine scenarios, and each is a script (EVALUATION_SCENARIOS).
LEMMA ScenarioScripts ==
  /\ Len(EVALUATION_SCENARIOS) = 9
  /\ DOMAIN EVALUATION_SCENARIOS = 1 .. 9
  /\ \A i \in 1 .. 9 :
       EVALUATION_SCENARIOS[i].script \in ScriptsOf(AttemptedActions[i])
<1> DEFINE Plain == ScriptsOf(Undefined)
           Calls == ScriptCalls(Undefined)
           Minimal == MINIMAL_SUBMISSION_DOCUMENT_TYPES
           Full == FULL_SUBMISSION_DOCUMENT_TYPES
<1>1. \A action : Finalize \in Seq(ScriptCalls(action))
                  /\ FinalizeBlocked \in Seq(ScriptCalls(action))
  BY DEF Finalize, FinalizeBlocked, ScriptCalls
<1>2. /\ buildUnderDomesticReviewBaseline(Minimal) \in Plain
      /\ buildUnderForeignReviewBaseline(Full) \in Plain
      /\ buildIssuedBaseline(Full) \in Plain
  BY BaselineScripts, DocumentLists
<1>3. /\ <<Transition(Domestic, RejectCaseRule, {})>> \in Seq(Calls)
      /\ <<Upload(Applicant, "response_to_information_package"),
           Transition(Applicant, RespondToInformationRequestRule,
                      {Key("response_to_information_package", 1)})>> \in Seq(Calls)
      /\ <<Supersede(Coordination, "assurance_instrument")>> \in Seq(Calls)
  <2>1. /\ "response_to_information_package" \in DOCUMENT_TYPES
        /\ "assurance_instrument" \in DOCUMENT_TYPES
    BY DEF DOCUMENT_TYPES
  <2>2. /\ Transition(Domestic, RejectCaseRule, {}) \in Calls
        /\ Upload(Applicant, "response_to_information_package") \in Calls
        /\ Transition(Applicant, RespondToInformationRequestRule,
                      {Key("response_to_information_package", 1)}) \in Calls
        /\ Supersede(Coordination, "assurance_instrument") \in Calls
    BY <2>1, RulesInTable, CallsMade
  <2> QED
    BY <2>2
<1>4. runNormalApprovalScenario \in Plain
  BY <1>1, <1>2, ScriptContinues DEF runNormalApprovalScenario
<1>5. runMoreInformationLoopScenario \in Plain
  BY <1>1, <1>2, <1>3, PartScripts, ScriptContinues DEF runMoreInformationLoopScenario
<1>6. runRejectionScenario \in Plain
  BY <1>1, <1>2, <1>3, ScriptContinues DEF runRejectionScenario
<1>7. runSubstantiveAmendmentScenario \in Plain
  BY <1>1, <1>2, PartScripts, ScriptContinues DEF runSubstantiveAmendmentScenario
<1>8. runNonSubstantiveAmendmentScenario \in Plain
  BY <1>1, <1>2, <1>3, PartScripts, ScriptContinues
  DEF runNonSubstantiveAmendmentScenario
<1>9. runRevocationScenario \in Plain
  BY <1>1, <1>2, PartScripts, ScriptContinues DEF runRevocationScenario
<1>10. ASSUME NEW role \in {Applicant, Coordination}, NEW rule \in TRANSITIONS,
              NEW keys \in SUBSET ScriptedKeys,
              NEW reason \in {"not_allowed", "missing_documents", "no_transition"}
       PROVE  <<Attempt(role, rule, keys, reason)>>
                \in Seq(ScriptCalls(rule.action))
  BY DEF Attempt, ScriptCalls, UserRoles
<1>11. runUnauthorizedAttemptScenario \in ScriptsOf("record_domestic_review")
  <2>1. buildSubmittedBaseline(Minimal) \in ScriptsOf("record_domestic_review")
    BY CreationScripts, DocumentLists
  <2> QED
    BY <1>1, <1>10, <2>1, RulesInTable, ScriptContinues
    DEF runUnauthorizedAttemptScenario
<1>12. runMissingDocumentPathScenario \in ScriptsOf("submit_case")
  <2> DEFINE types == SubSeq(MINIMAL_SUBMISSION_DOCUMENT_TYPES, 1, 2)
  <2>1. /\ createDraftWithDocuments(types) \in ScriptsOf("submit_case")
        /\ KeysOf(types) \in SUBSET ScriptedKeys
    BY CreationScripts, DocumentLists
  <2> QED
    BY <1>1, <1>10, <2>1, RulesInTable, ScriptContinues
    DEF runMissingDocumentPathScenario
<1>13. runInvalidTransitionAttemptScenario
         \in ScriptsOf("forward_to_foreign_authority")
  <2>1. buildUnderDomesticReviewBaseline(Minimal)
          \in ScriptsOf("forward_to_foreign_authority")
    BY CreationScripts, DocumentLists
  <2> QED
    BY <1>1, <1>10, <2>1, RulesInTable, ScriptContinues
    DEF runInvalidTransitionAttemptScenario
<1> HIDE DEF Plain
<1> QED
  BY <1>4, <1>5, <1>6, <1>7, <1>8, <1>9, <1>11, <1>12, <1>13
  DEF Plain, EVALUATION_SCENARIOS, AttemptedActions

\* There are eight screenshot samples, and each is a script without attempts.
LEMMA SampleScripts ==
  /\ Len(ScreenshotSamples) = 8
  /\ DOMAIN ScreenshotSamples = 1 .. 8
  /\ \A i \in 1 .. 8 : ScreenshotSamples[i].script \in ScriptsOf(Undefined)
<1> DEFINE Plain == ScriptsOf(Undefined)
           Calls == ScriptCalls(Undefined)
<1>1. /\ createSubmittedCase \in Plain
      /\ <<CreateDraft>> \in Plain
  <2>1. createSubmittedCase \in Plain
    BY BaselineScripts, DocumentLists DEF createSubmittedCase
  <2>2. CreateDraft \in Calls
    BY DEF CreateDraft, ScriptCalls
  <2> QED
    BY <2>1, <2>2 DEF ScriptsOf
<1>2. /\ <<Transition(Domestic, RecordDomesticReviewRule, {})>> \in Seq(Calls)
      /\ <<Transition(Domestic, RecordDomesticReviewRule, {}),
           Transition(Domestic, RejectCaseRule, {})>> \in Seq(Calls)
      /\ <<Supersede(Coordination, "assurance_instrument")>> \in Seq(Calls)
  <2>1. "assurance_instrument" \in DOCUMENT_TYPES
    BY DEF DOCUMENT_TYPES
  <2>2. /\ Transition(Domestic, RecordDomesticReviewRule, {}) \in Calls
        /\ Transition(Domestic, RejectCaseRule, {}) \in Calls
        /\ Supersede(Coordination, "assurance_instrument") \in Calls
    BY <2>1, RulesInTable, CallsMade
  <2> QED
    BY <2>2
<1>3. createMoreInfoCase \in Plain
  BY <1>1, <1>2, PartScripts, ScriptContinues DEF createMoreInfoCase
<1>4. createRejectedCase \in Plain
  BY <1>1, <1>2, ScriptContinues DEF createRejectedCase
<1>5. createUnderForeignReviewCase \in Plain
  BY <1>1, <1>2, PartScripts, ScriptContinues DEF createUnderForeignReviewCase
<1>6. createApprovedCase \in Plain
  BY <1>5, PartScripts, ScriptContinues DEF createApprovedCase
<1>7. createIssuedCase \in Plain
  BY <1>6, PartScripts, ScriptContinues DEF createIssuedCase
<1>8. createAmendedCase \in Plain
  BY <1>2, <1>7, PartScripts, ScriptContinues DEF createAmendedCase
<1>9. createRevokedCase \in Plain
  BY <1>7, PartScripts, ScriptContinues DEF createRevokedCase
<1> HIDE DEF Plain
<1> QED
  BY <1>1, <1>3, <1>4, <1>5, <1>6, <1>7, <1>8, <1>9
  DEF Plain, ScreenshotSamples

\* There are five series to seed, each with a script without attempts.
LEMMA SeriesScripts ==
  /\ Len(SeedSeries) = 5
  /\ \A i \in 1 .. 5 : SeedSeries[i].script \in ScriptsOf(Undefined)
<1> DEFINE Plain == ScriptsOf(Undefined)
           Calls == ScriptCalls(Undefined)
           Minimal == MINIMAL_SUBMISSION_DOCUMENT_TYPES
<1>1. /\ createDraftWithDocuments(Minimal) \in Plain
      /\ buildSubmittedBaseline(Minimal) \in Plain
      /\ buildIssuedBaseline(Minimal) \in Plain
  BY BaselineScripts, DocumentLists
<1>2. seedAnchorCases \in Plain
  <2>1. CreateDraft \in Calls
    BY DEF CreateDraft, ScriptCalls
  <2> QED
    BY <2>1 DEF seedAnchorCases, ScriptsOf
<1>3. seedDraftSubmissionCases \in Plain /\ seedSubmittedCases \in Plain
  BY <1>1 DEF seedDraftSubmissionCases, seedSubmittedCases
<1>4. seedIssuedCases \in Plain
  <2>1. "amendment_request_package" \in DOCUMENT_TYPES
    BY DEF DOCUMENT_TYPES
  <2>2. Upload(Domestic, "amendment_request_package") \in Calls
    BY <2>1, RulesInTable, CallsMade
  <2>3. <<Upload(Domestic, "amendment_request_package")>> \in Seq(Calls)
    BY <2>2
  <2> QED
    BY <1>1, <2>3, ScriptContinues DEF seedIssuedCases
<1>5. seedApprovedAmendmentCases \in Plain
  BY <1>1, PartScripts, ScriptContinues DEF seedApprovedAmendmentCases
<1> HIDE DEF Plain
<1> QED
  BY <1>2, <1>3, <1>4, <1>5 DEF Plain, SeedSeries

\* There are six rounds, none of which attempts anything (BenchmarkRounds).
LEMMA RoundCalls ==
  /\ DOMAIN BenchmarkRounds = 1 .. 6 /\ Len(BenchmarkRounds) = 6
  /\ \A i \in 1 .. 6 : BenchmarkRounds[i].call \in ScriptCalls(Undefined)
<1> DEFINE Calls == ScriptCalls(Undefined)
<1>1. {"coordination_forwarding_package", "assurance_instrument",
       "amendment_request_package"} \subseteq DOCUMENT_TYPES
  BY DEF DOCUMENT_TYPES
<1>2. KeysOf(MINIMAL_SUBMISSION_DOCUMENT_TYPES) \in SUBSET ScriptedKeys
  BY CreationScripts, DocumentLists
<1>3. /\ Upload(Coordination, "coordination_forwarding_package") \in Calls
      /\ Supersede(Coordination, "assurance_instrument") \in Calls
      /\ Key("amendment_request_package", 1) \in ScriptedKeys
      /\ Key("assurance_instrument", 2) \in ScriptedKeys
  BY <1>1, RulesInTable, CallsMade
<1>4. \A rule \in TRANSITIONS, keys \in SUBSET ScriptedKeys,
         role \in {Applicant, Domestic, Coordination} :
        Transition(role, rule, keys) \in Calls
  BY <1>1, RulesInTable, CallsMade
<1> HIDE DEF Calls
<1> QED
  BY <1>2, <1>3, <1>4, RulesInTable DEF Calls, BenchmarkRounds

-----------------------------------------------------------------------------
(* The plans. *)

AttemptedAction(t, i) == IF t = "suite" THEN AttemptedActions[i] ELSE Undefined

\* Every tool has something to do, on cases that clients may name, and no
\* scenario attempts what another part of its script does.
LEMMA PlansTyped ==
  ASSUME NEW t \in {"suite", "pack", "seeding"}
  PROVE  /\ DOMAIN Plan = {"suite", "pack", "seeding"}
         /\ Len(Plan[t]) \in Nat \ {0}
         /\ DOMAIN Plan[t] = 1 .. Len(Plan[t])
         /\ \A i \in 1 .. Len(Plan[t]) :
              /\ Plan[t][i].id \in ScriptedCases
              /\ Plan[t][i].script \in ScriptsOf(AttemptedAction(t, i))
              /\ AttemptedAction(t, i) # "create_case"
<1>1. DOMAIN Plan = {"suite", "pack", "seeding"}
  BY DEF Plan
<1>0. /\ t = "suite" => Plan[t] = EVALUATION_SCENARIOS
      /\ t = "pack" => Plan[t] = ScreenshotSamples
      /\ t = "seeding" => Plan[t] = SeedPlan
  BY DEF Plan
<1>2. /\ Len(Plan[t]) \in Nat \ {0}
      /\ DOMAIN Plan[t] = 1 .. Len(Plan[t])
      /\ \A i \in 1 .. Len(Plan[t]) :
           Plan[t][i].script \in ScriptsOf(AttemptedAction(t, i))
  <2>1. CASE t = "suite"
    <3>1. \A i : AttemptedAction(t, i) = AttemptedActions[i]
      BY <2>1 DEF AttemptedAction
    <3>2. Plan[t] = EVALUATION_SCENARIOS
      BY <1>0, <2>1
    <3> QED
      BY <3>1, <3>2, ScenarioScripts
  <2>2. CASE t = "pack"
    <3>1. \A i : AttemptedAction(t, i) = Undefined
      BY <2>2 DEF AttemptedAction
    <3>2. Plan[t] = ScreenshotSamples
      BY <1>0, <2>2
    <3> QED
      BY <3>1, <3>2, SampleScripts
  <2>3. CASE t = "seeding"
    <3>1. Plan[t] = SeedPlan
      BY <1>0, <2>3
    <3>2. /\ DOMAIN SeedPlan = 1 .. 5 * SeedCount
          /\ Len(SeedPlan) = 5 * SeedCount
          /\ 5 * SeedCount \in Nat \ {0}
      BY SeriesScripts, EvaluationCounts DEF SeedPlan
    <3>3. ASSUME NEW i \in 1 .. 5 * SeedCount
          PROVE  SeedPlan[i].script \in ScriptsOf(Undefined)
      <4>1. ((i - 1) \div SeedCount) + 1 \in 1 .. 5
        BY EvaluationCounts
      <4>2. SeedPlan[i].script = SeedSeries[((i - 1) \div SeedCount) + 1].script
        BY SeriesScripts DEF SeedPlan
      <4> QED
        BY <4>1, <4>2, SeriesScripts
    <3> QED
      BY <2>3, <3>1, <3>2, <3>3 DEF AttemptedAction
  <2> QED
    BY <2>1, <2>2, <2>3
<1>3. \A i \in 1 .. Len(Plan[t]) : Plan[t][i].id \in ScriptedCases
  <2> SUFFICES ASSUME NEW i \in 1 .. Len(Plan[t])
               PROVE  Plan[t][i].id \in ScriptedCases
    OBVIOUS
  <2> DEFINE ids == {Plan[t][j].id : j \in DOMAIN Plan[t]}
             all == {{Plan[u][j].id : j \in DOMAIN Plan[u]} : u \in DOMAIN Plan}
  <2>1. Plan[t][i].id \in ids
    BY <1>2
  <2>2. ids \in all
    BY <1>1
  <2>3. UNION all \subseteq ScriptedCases
    BY DEF ScriptedCases
  <2> HIDE DEF ids, all
  <2> QED
    BY <2>1, <2>2, <2>3
<1>4. \A i \in 1 .. Len(Plan[t]) : AttemptedAction(t, i) # "create_case"
  <2>1. t = "suite" => Len(Plan[t]) = 9
    BY <1>0, ScenarioScripts
  <2>2. \A i \in 1 .. 9 : AttemptedActions[i] # "create_case"
    BY DEF AttemptedActions, Undefined
  <2> QED
    BY <2>1, <2>2 DEF AttemptedAction, Undefined
<1> QED
  BY <1>1, <1>2, <1>3, <1>4

-----------------------------------------------------------------------------
(* The tools as clients of the ledger. *)

\* Whoever acts for a tool carries the claims of a user.
LEMMA RolesClaim ==
  ASSUME NEW role \in UserRoles PROVE OfficerOf(role) \in UserClaims
BY DEF OfficerOf, UserClaims, UserRoles, OrganizationOf, OrganizationTypes

\* The fields of a call are those of its kind.
LEMMA CallTypes ==
  ASSUME NEW action, NEW call \in ScriptCalls(action)
  PROVE  /\ call.call \in {"createDraft", "upload", "transition", "attempt",
                           "finalize"}
         /\ call.call = "createDraft" => call = CreateDraft
         /\ call.call = "upload" =>
              /\ call.role \in UserRoles /\ call.key \in ScriptedKeys
              /\ call.supersedes \in SUBSET ScriptedKeys
         /\ call.call \in {"transition", "attempt"} =>
              /\ call.role \in UserRoles /\ call.rule \in TRANSITIONS
              /\ call.keys \in SUBSET ScriptedKeys
         /\ call.call = "transition" => call.rule.action # action
         /\ call.call = "attempt" =>
              /\ call.rule.action = action
              /\ call.expected
                   \in {"not_allowed", "missing_documents", "no_transition"}
         /\ call.call = "finalize" => call.override \in {Undefined, "blocked"}
BY DEF ScriptCalls, CreateDraft

\* An upload anchors a reference of its case and type, after the document it
\* supersedes if it names one (uploadSeedDocument).
LEMMA UploadAnchors ==
  ASSUME ChaincodeInv, NEW case \in ScriptedCases, NEW action,
         NEW call \in ScriptCalls(action), call.call = "upload",
         uploadDocument(case, call)
  PROVE  \E superseded \in DocumentIds \cup {Undefined},
            reference \in Documents!DocumentReference :
           /\ Anchors(DocumentIdOf(case, call.key), reference, superseded)
           /\ reference.caseId = case
           /\ reference.documentType = call.key.type
           /\ IF call.supersedes = {} THEN superseded = Undefined
              ELSE \E key \in call.supersedes :
                     superseded = DocumentIdOf(case, key)
<1> DEFINE payload ==
             [caseId |-> case, documentType |-> call.key.type,
              sha256Hash |-> CHOOSE h \in Hashes : TRUE,
              version |-> call.key.n,
              supersedesDocumentId |-> Undefined, isActive |-> TRUE]
           id == DocumentIdOf(case, call.key)
<1>1. /\ call.key \in ScriptedKeys /\ call.supersedes \in SUBSET ScriptedKeys
      /\ UNCHANGED <<stateIndex, events>>
  BY CallTypes DEF uploadDocument
<1>2. /\ id \in DocumentIds /\ case \in CaseIds
      /\ \A key \in call.supersedes : DocumentIdOf(case, key) \in DocumentIds
  BY <1>1, IdentifiersAssumption
<1>3. (CHOOSE h \in Hashes : TRUE) \in Hashes
  BY IdentifiersAssumption
<1>4. call.key.type \in DOCUMENT_TYPES /\ call.key.n \in Nat
  BY <1>1 DEF ScriptedKeys
<1>5. CASE call.supersedes = {}
  <2> DEFINE first == [payload EXCEPT !.version = 1]
  <2>1. first \in Documents!DocumentReference
    BY <1>2, <1>3, <1>4, SameVocabulary DEF Documents!DocumentReference
  <2>2. Documents!addDocumentReference(id, first, OfficerOf(call.role))
    BY <1>5 DEF uploadDocument
  <2>3. first.caseId = case /\ first.documentType = call.key.type
    OBVIOUS
  <2> HIDE DEF first
  <2>4. LET reference == [first EXCEPT !.isActive = TRUE]
        IN /\ reference \in Documents!DocumentReference
           /\ Anchors(id, reference, Undefined)
    BY <1>1, <1>2, <2>1, <2>2, FirstVersionAnchors
  <2> QED
    BY <1>5, <2>1, <2>3, <2>4, ReferenceActivated
<1>6. CASE call.supersedes # {}
  <2>1. PICK key \in call.supersedes :
          Documents!updateDocumentVersion(id,
            [payload EXCEPT !.supersedesDocumentId = DocumentIdOf(case, key)],
            OfficerOf(call.role))
    BY <1>6 DEF uploadDocument
  <2> DEFINE later ==
               [payload EXCEPT !.supersedesDocumentId = DocumentIdOf(case, key)]
  <2>2. later \in Documents!DocumentReference
    BY <1>2, <1>3, <1>4, SameVocabulary DEF Documents!DocumentReference
  <2>3. /\ later.caseId = case /\ later.documentType = call.key.type
        /\ later.supersedesDocumentId = DocumentIdOf(case, key)
    OBVIOUS
  <2> HIDE DEF later
  <2>4. LET reference == [later EXCEPT !.isActive = TRUE]
        IN /\ reference \in Documents!DocumentReference
           /\ Anchors(id, reference, later.supersedesDocumentId)
    BY <1>1, <1>2, <2>1, <2>2, NextVersionAnchors DEF later
  <2> QED
    BY <1>2, <1>6, <2>2, <2>3, <2>4, ReferenceActivated
<1> QED
  BY <1>5, <1>6

\* Whatever a call does to the ledger, it does as a client of it.
LEMMA EffectIsLedgerStep ==
  ASSUME ChaincodeInv, NEW case \in ScriptedCases, NEW action,
         NEW call \in ScriptCalls(action), Effect(case, call)
  PROVE  LedgerStep \/ UNCHANGED chaincodeVars
<1>1. case \in CaseIds
  BY IdentifiersAssumption
<1>2. CASE call.call = "createDraft" /\ createCase(case, OfficerOf(Applicant))
             /\ UNCHANGED <<documents, caseDocuments>>
  <2>1. OfficerOf(Applicant) \in UserClaims
    BY RolesClaim DEF UserRoles
  <2> QED
    BY <1>1, <1>2, <2>1 DEF LedgerStep, CaseStep
<1>3. CASE call.call = "upload" /\ uploadDocument(case, call)
  <2>1. DocumentIdOf(case, call.key) \in DocumentIds
    BY <1>3, CallTypes, IdentifiersAssumption
  <2> QED
    BY <1>3, <2>1, UploadAnchors DEF LedgerStep
<1>4. CASE call.call \in {"transition", "attempt"} /\ transitionCase(case, call)
  <2>1. /\ OfficerOf(call.role) \in UserClaims /\ call.rule \in TRANSITIONS
        /\ call.keys \in SUBSET ScriptedKeys
    BY <1>4, CallTypes, RolesClaim
  <2>2. {DocumentIdOf(case, key) : key \in call.keys} \in SUBSET DocumentIds
    BY <2>1, IdentifiersAssumption
  <2> QED
    BY <1>1, <1>4, <2>1, <2>2 DEF transitionCase, LedgerStep, CaseStep
<1> QED
  BY <1>2, <1>3, <1>4 DEF Effect

\* What is left of a plan, and where the tool is in its own.
Remaining(rest, plan) ==
  /\ rest \in Seq({plan[i] : i \in 1 .. Len(plan)})
  /\ Len(rest) <= Len(plan)
  /\ \A i \in 1 .. Len(rest) : rest[i] = plan[Len(plan) - Len(rest) + i]

Position == Len(Plan[tool]) - Len(todo) + 1

ProgressInv ==
  /\ tool \in {"suite", "pack", "seeding"}
  /\ phase \in {"running", "published", "aborted"}
  /\ Remaining(todo, Plan[tool])
  /\ phase = "running" =>
       /\ todo # <<>>
       /\ script # <<>>
       /\ script \in Seq(ScriptCalls(AttemptedAction(tool, Position)))
  /\ phase = "published" => todo = <<>>
  /\ phase = "aborted" => tool # "suite"
  /\ failures \in Nat
  /\ sent \in [0 .. Workers - 1 -> Nat]
  /\ round \in Nat \ {0}

\* The first script left is the one at the position, and without it the rest
\* of the plan is left.
LEMMA RemainingTail ==
  ASSUME NEW plan, Len(plan) \in Nat, NEW rest, Remaining(rest, plan),
         rest # <<>>
  PROVE  /\ Len(rest) \in Nat \ {0}
         /\ Head(rest) = plan[Len(plan) - Len(rest) + 1]
         /\ Len(plan) - Len(rest) + 1 \in 1 .. Len(plan)
         /\ Remaining(Tail(rest), plan)
         /\ Len(Tail(rest)) = Len(rest) - 1
<1> DEFINE S == {plan[i] : i \in 1 .. Len(plan)}
<1>1. rest \in Seq(S) /\ Len(rest) \in Nat \ {0}
  BY DEF Remaining
<1> HIDE DEF S
<1>2. /\ Tail(rest) \in Seq(S)
      /\ Len(Tail(rest)) = Len(rest) - 1
      /\ \A i \in 1 .. Len(Tail(rest)) : Tail(rest)[i] = rest[i + 1]
      /\ Head(rest) = rest[1]
  BY <1>1
<1>3. \A i \in 1 .. Len(rest) : rest[i] = plan[Len(plan) - Len(rest) + i]
  BY DEF Remaining
<1>4. Len(rest) <= Len(plan)
  BY DEF Remaining
<1>5. \A i \in 1 .. Len(Tail(rest)) :
        Tail(rest)[i] = plan[Len(plan) - Len(Tail(rest)) + i]
  <2> SUFFICES ASSUME NEW i \in 1 .. Len(Tail(rest))
               PROVE  Tail(rest)[i] = plan[Len(plan) - Len(Tail(rest)) + i]
    OBVIOUS
  <2>1. i + 1 \in 1 .. Len(rest) /\ Tail(rest)[i] = rest[i + 1]
    BY <1>1, <1>2
  <2>2. Len(plan) - Len(rest) + (i + 1) = Len(plan) - Len(Tail(rest)) + i
    BY <1>1, <1>2
  <2> QED
    BY <1>3, <2>1, <2>2
<1> QED
  BY <1>1, <1>2, <1>3, <1>4, <1>5 DEF Remaining, S

\* A plan begins with its first entry.
LEMMA PlanStarts ==
  ASSUME NEW t \in {"suite", "pack", "seeding"}
  PROVE  /\ Remaining(Plan[t], Plan[t])
         /\ Plan[t] # <<>>
         /\ Head(Plan[t]) = Plan[t][1]
         /\ Len(Plan[t]) - Len(Plan[t]) + 1 = 1
         /\ 1 \in 1 .. Len(Plan[t])
         /\ Head(Plan[t]).script # <<>>
         /\ Head(Plan[t]).script \in Seq(ScriptCalls(AttemptedAction(t, 1)))
<1>1. /\ Len(Plan[t]) \in Nat \ {0}
      /\ DOMAIN Plan[t] = 1 .. Len(Plan[t])
      /\ Plan[t][1].script \in ScriptsOf(AttemptedAction(t, 1))
  BY PlansTyped
<1>2. Plan[t] \in Seq({Plan[t][i] : i \in 1 .. Len(Plan[t])})
  <2>1. CASE t = "suite"
    BY <2>1 DEF Plan, EVALUATION_SCENARIOS
  <2>2. CASE t = "pack"
    BY <2>2 DEF Plan, ScreenshotSamples
  <2>3. CASE t = "seeding"
    <3>1. Plan[t] = SeedPlan
      BY <2>3 DEF Plan
    <3>2. /\ DOMAIN SeedPlan = 1 .. 5 * SeedCount
          /\ 5 * SeedCount \in Nat
      BY SeriesScripts, EvaluationCounts DEF SeedPlan
    <3>3. SeedPlan = [i \in 1 .. 5 * SeedCount |-> SeedPlan[i]]
      BY SeriesScripts DEF SeedPlan
    <3> QED
      BY <1>1, <3>1, <3>2, <3>3
  <2> QED
    BY <2>1, <2>2, <2>3
<1> QED
  BY <1>1, <1>2 DEF Remaining, ScriptsOf

\* The script under way is that of the plan's entry at the position.
LEMMA AtPosition ==
  ASSUME ProgressInv, phase = "running"
  PROVE  /\ Position \in 1 .. Len(Plan[tool])
         /\ Head(todo) = Plan[tool][Position]
         /\ caseId = Plan[tool][Position].id
         /\ caseId \in ScriptedCases
         /\ Len(script) \in Nat \ {0}
         /\ Call \in ScriptCalls(AttemptedAction(tool, Position))
         /\ AttemptedAction(tool, Position) # "create_case"
         /\ Tail(script) \in Seq(ScriptCalls(AttemptedAction(tool, Position)))
         /\ Len(Tail(script)) = Len(script) - 1
         /\ Len(script) > 1 => Tail(script) # <<>>
<1>1. Remaining(todo, Plan[tool]) /\ todo # <<>> /\ tool \in {"suite", "pack", "seeding"}
  BY DEF ProgressInv
<1>2. Len(Plan[tool]) \in Nat \ {0}
  BY <1>1, PlansTyped
<1>3. /\ Position \in 1 .. Len(Plan[tool])
      /\ Head(todo) = Plan[tool][Position]
  BY <1>1, <1>2, RemainingTail DEF Position
<1> DEFINE Calls == ScriptCalls(AttemptedAction(tool, Position))
<1>4. script \in Seq(Calls) /\ script # <<>>
  BY DEF ProgressInv
<1> HIDE DEF Calls
<1>5. /\ Len(script) \in Nat \ {0}
      /\ Head(script) \in Calls
      /\ Tail(script) \in Seq(Calls)
      /\ Len(Tail(script)) = Len(script) - 1
      /\ Len(script) > 1 => Tail(script) # <<>>
  BY <1>4
<1> QED
  BY <1>1, <1>3, <1>5, PlansTyped DEF Calls, caseId, Call

\* Turning to the next script moves the position by one.
LEMMA NextScriptMoves ==
  ASSUME ProgressInv, phase = "running", nextScript, tool' = tool
  PROVE  /\ Position' = Position + 1
         /\ Remaining(todo', Plan[tool])
         /\ phase' \in {"running", "published"}
         /\ phase' = "published" => todo' = <<>>
         /\ phase' = "running" =>
              /\ todo' # <<>>
              /\ Position' \in 1 .. Len(Plan[tool])
              /\ caseId' = Plan[tool][Position'].id
              /\ script' = Plan[tool][Position'].script
              /\ script' \in ScriptsOf(AttemptedAction(tool, Position'))
<1>1. Remaining(todo, Plan[tool]) /\ todo # <<>> /\ tool \in {"suite", "pack", "seeding"}
  BY DEF ProgressInv
<1>2. Len(Plan[tool]) \in Nat \ {0}
  BY <1>1, PlansTyped
<1>3. /\ todo' = Tail(todo)
      /\ Len(todo) \in Nat \ {0}
      /\ Remaining(todo', Plan[tool])
      /\ Len(todo') = Len(todo) - 1
  BY <1>1, <1>2, RemainingTail DEF nextScript
<1>4. Position' = Position + 1
  BY <1>2, <1>3 DEF Position
<1>5. /\ phase' \in {"running", "published"}
      /\ phase' = "published" => todo' = <<>>
      /\ phase' = "running" => todo' # <<>> /\ script' = Head(todo').script
  BY DEF nextScript
<1>6. ASSUME phase' = "running"
      PROVE  /\ Position' \in 1 .. Len(Plan[tool])
             /\ Head(todo') = Plan[tool][Position']
  <2>1. /\ Head(todo') = Plan[tool][Len(Plan[tool]) - Len(todo') + 1]
        /\ Len(Plan[tool]) - Len(todo') + 1 \in 1 .. Len(Plan[tool])
    BY <1>2, <1>3, <1>5, <1>6, RemainingTail
  <2> QED
    BY <2>1 DEF Position
<1> QED
  BY <1>1, <1>3, <1>4, <1>5, <1>6, PlansTyped DEF caseId

-----------------------------------------------------------------------------
(* The division of the seeded cases among the workers of a round. *)

\* A worker's requests name seeded cases, and no two requests of a round, of
\* one worker or of two, name the same (buildLogicalIndex with txNumber).
LEMMA ShareArithmetic ==
  /\ SeedCount \div Workers \in Nat
  /\ SeedCount % Workers \in 0 .. Workers - 1
  /\ SeedCount = (SeedCount \div Workers) * Workers + (SeedCount % Workers)
BY EvaluationCounts

\* A worker only uses cases that were seeded.
LEMMA IndexInRange ==
  ASSUME NEW worker \in 0 .. Workers - 1, NEW request \in Nat,
         request < ShareOf(worker)
  PROVE  buildLogicalIndex(1, request, worker, Workers) \in 1 .. SeedCount
<1> DEFINE q == SeedCount \div Workers
           r == SeedCount % Workers
<1>1. /\ q \in Nat /\ r \in 0 .. Workers - 1 /\ SeedCount = q * Workers + r
      /\ Workers \in Nat \ {0}
  BY ShareArithmetic, EvaluationCounts
<1>2. request < q + IF worker < r THEN 1 ELSE 0
  BY DEF ShareOf
<1> HIDE DEF q, r
<1>3. CASE worker < r
  <2>1. request <= q
    BY <1>1, <1>2, <1>3
  <2>2. request * Workers <= q * Workers
    BY <1>1, <2>1
  <2> QED
    BY <1>1, <1>3, <2>2 DEF buildLogicalIndex
<1>4. CASE ~(worker < r)
  <2>1. request + 1 <= q
    BY <1>1, <1>2, <1>4
  <2>2. (request + 1) * Workers <= q * Workers
    BY <1>1, <2>1
  <2>3. (request + 1) * Workers = request * Workers + Workers
    BY <1>1
  <2> QED
    BY <1>1, <2>2, <2>3 DEF buildLogicalIndex
<1> QED
  BY <1>3, <1>4

\* In a round every seeded case is used, and by one request only
\* (buildLogicalIndex, getSeedEntityIds).
CasesShared ==
  \A index \in 1 .. SeedCount :
    \E worker \in 0 .. Workers - 1, request \in Nat :
      /\ request < ShareOf(worker)
      /\ index = buildLogicalIndex(1, request, worker, Workers)
      /\ \A other \in 0 .. Workers - 1, another \in Nat :
           index = buildLogicalIndex(1, another, other, Workers)
             => other = worker /\ another = request

\* For every number of cases and workers, the requests of a round use every
\* seeded case, each of them once (buildLogicalIndex and the share of a worker).
THEOREM WorkersShareCases == CasesShared
<1> SUFFICES ASSUME NEW index \in 1 .. SeedCount
             PROVE  \E worker \in 0 .. Workers - 1, request \in Nat :
                      /\ request < ShareOf(worker)
                      /\ index = buildLogicalIndex(1, request, worker, Workers)
                      /\ \A other \in 0 .. Workers - 1, another \in Nat :
                           index = buildLogicalIndex(1, another, other, Workers)
                             => other = worker /\ another = request
  BY DEF CasesShared
<1> DEFINE q == SeedCount \div Workers
           r == SeedCount % Workers
           worker == (index - 1) % Workers
           request == (index - 1) \div Workers
<1>1. /\ q \in Nat /\ r \in 0 .. Workers - 1 /\ SeedCount = q * Workers + r
      /\ Workers \in Nat \ {0} /\ SeedCount \in Nat \ {0}
  BY ShareArithmetic, EvaluationCounts
<1>2. /\ worker \in 0 .. Workers - 1 /\ request \in Nat
      /\ index - 1 = request * Workers + worker
  BY <1>1
<1>3. ShareOf(worker) = q + IF worker < r THEN 1 ELSE 0
  BY DEF ShareOf
<1> HIDE DEF q, r, worker, request
<1>4. request < ShareOf(worker)
  <2>1. request <= q
    <3>1. request >= q + 1 => request * Workers >= (q + 1) * Workers
      BY <1>1, <1>2
    <3>2. (q + 1) * Workers = q * Workers + Workers
      BY <1>1
    <3> QED
      BY <1>1, <1>2, <3>1, <3>2
  <2>2. request = q => worker < r
    BY <1>1, <1>2
  <2> QED
    BY <1>1, <1>2, <1>3, <2>1, <2>2
<1>5. ASSUME NEW other \in 0 .. Workers - 1, NEW another \in Nat,
             index = buildLogicalIndex(1, another, other, Workers)
      PROVE  other = worker /\ another = request
  <2>1. another * Workers + other = request * Workers + worker
    BY <1>1, <1>2, <1>5 DEF buildLogicalIndex
  <2>2. another >= request + 1 => another * Workers >= request * Workers + Workers
    <3>1. another >= request + 1 => another * Workers >= (request + 1) * Workers
      BY <1>1, <1>2
    <3> QED
      BY <1>1, <1>2, <3>1
  <2>3. request >= another + 1 => request * Workers >= another * Workers + Workers
    <3>1. request >= another + 1 => request * Workers >= (another + 1) * Workers
      BY <1>1, <1>2
    <3> QED
      BY <1>1, <1>2, <3>1
  <2>4. another * Workers \in Nat /\ request * Workers \in Nat
    BY <1>1, <1>2
  <2>5. another = request
    BY <1>1, <1>2, <2>1, <2>2, <2>3, <2>4
  <2> QED
    BY <1>1, <1>2, <2>1, <2>4, <2>5
<1>6. index = buildLogicalIndex(1, request, worker, Workers)
  BY <1>1, <1>2 DEF buildLogicalIndex
<1> QED
  BY <1>2, <1>4, <1>5, <1>6

-----------------------------------------------------------------------------
(* Every tool, at every moment, is a client of the ledger. *)

\* Every step keeps the progress, and does to the ledger what a client may.
LEMMA ProgressNext ==
  ASSUME LedgerInv, ProgressInv, [EvaluationNext]_evaluationVars
  PROVE  ProgressInv' /\ [LedgerStep]_chaincodeVars
<1>1. ChaincodeInv
  BY DEF LedgerInv
<1> DEFINE action == AttemptedAction(tool, Position)
<1>2. ASSUME phase = "running" PROVE Effect(caseId, Call) => [LedgerStep]_chaincodeVars
  BY <1>1, <1>2, AtPosition, EffectIsLedgerStep
<1>3. ASSUME phase = "running", advance,
             UNCHANGED <<tool, benchmark>>, failures' \in Nat
      PROVE  ProgressInv'
  <2>1. CASE Len(script) > 1
    <3>1. /\ script' = Tail(script) /\ UNCHANGED <<todo, phase>>
          /\ Position' = Position
      BY <1>3, <2>1 DEF advance, Position
    <3>2. script' \in Seq(ScriptCalls(AttemptedAction(tool, Position)))
      BY <1>3, <3>1, AtPosition
    <3>3. script' # <<>>
      BY <1>3, <2>1, <3>1, AtPosition
    <3> QED
      BY <1>3, <3>1, <3>2, <3>3 DEF ProgressInv, benchmark
  <2>2. CASE ~(Len(script) > 1)
    <3>1. nextScript
      BY <2>2, <1>3 DEF advance
    <3>2. phase' = "running" =>
            /\ todo' # <<>> /\ script' # <<>>
            /\ script' \in Seq(ScriptCalls(AttemptedAction(tool, Position')))
      BY <1>3, <3>1, NextScriptMoves DEF ScriptsOf
    <3> QED
      BY <1>3, <3>1, <3>2, NextScriptMoves DEF ProgressInv, benchmark
  <2> QED
    BY <2>1, <2>2
<1>4. ASSUME phase = "running", giveUp,
             UNCHANGED <<tool, benchmark>>, failures' \in Nat
      PROVE  ProgressInv'
  <2>1. CASE tool = "suite"
    <3>1. nextScript
      BY <2>1, <1>4 DEF giveUp
    <3>2. phase' = "running" =>
            /\ todo' # <<>> /\ script' # <<>>
            /\ script' \in Seq(ScriptCalls(AttemptedAction(tool, Position')))
      BY <1>4, <3>1, NextScriptMoves DEF ScriptsOf
    <3> QED
      BY <1>4, <3>1, <3>2, NextScriptMoves DEF ProgressInv, benchmark
  <2>2. CASE tool # "suite"
    BY <1>4, <2>2 DEF giveUp, ProgressInv, benchmark
  <2> QED
    BY <2>1, <2>2
<1>5. CASE performCall
  BY <1>2, <1>3, <1>5 DEF performCall, ProgressInv
<1>6. CASE expectScenarioFailure
  BY <1>3, <1>6 DEF expectScenarioFailure, ProgressInv
<1>7. ASSUME NEW committed \in BOOLEAN, failCall(committed)
      PROVE  ProgressInv' /\ [LedgerStep]_chaincodeVars
  <2>1. failures' \in Nat
    BY <1>7 DEF failCall, ProgressInv
  <2> QED
    BY <1>2, <1>4, <1>7, <2>1 DEF failCall
<1>8. ASSUME NEW worker \in DOMAIN sent, submitTransaction(worker)
      PROVE  ProgressInv' /\ [LedgerStep]_chaincodeVars
  <2> DEFINE request == BenchmarkRounds[round]
             index == buildLogicalIndex(1, sent[worker], worker, Workers)
             case == seedId(request.series, index)
  <2>1. /\ InRounds /\ sent[worker] < ShareOf(worker)
        /\ Effect(case, request.call) \/ UNCHANGED chaincodeVars
        /\ sent' = [sent EXCEPT ![worker] = @ + 1]
        /\ UNCHANGED <<progress, round>>
    BY <1>8 DEF submitTransaction
  <2>2. worker \in 0 .. Workers - 1 /\ sent[worker] \in Nat
    BY <1>8 DEF ProgressInv
  <2>3. index \in 1 .. SeedCount
    BY <2>1, <2>2, IndexInRange
  <2>4. round \in 1 .. 6
    BY <2>1, RoundCalls DEF InRounds, ProgressInv
  <2>5. request.call \in ScriptCalls(Undefined)
    BY <2>4, RoundCalls
  <2>6. case \in ScriptedCases
    <3>1. request \in Range(BenchmarkRounds)
      BY <2>4, RoundCalls DEF Range
    <3> QED
      BY <2>3, <3>1 DEF ScriptedCases
  <2>7. [LedgerStep]_chaincodeVars
    BY <1>1, <2>1, <2>5, <2>6, EffectIsLedgerStep
  <2>8. sent' \in [0 .. Workers - 1 -> Nat]
    BY <2>1, <2>2 DEF ProgressInv
  <2>9. UNCHANGED <<tool, phase, todo, script, failures, round>> /\ Position' = Position
    BY <2>1 DEF progress, Position
  <2> QED
    BY <2>7, <2>8, <2>9 DEF ProgressInv
<1>9. CASE nextRound
  <2>1. /\ round' = round + 1 /\ sent' = [worker \in DOMAIN sent |-> 0]
        /\ UNCHANGED chaincodeVars
        /\ UNCHANGED <<tool, phase, todo, script, failures>> /\ Position' = Position
    BY <1>9 DEF nextRound, progress, Position
  <2> QED
    BY <2>1 DEF ProgressInv
<1>10. CASE seedAgain
  <2>1. /\ tool = "seeding" /\ tool' = tool /\ phase' = "running"
        /\ todo' = Plan["seeding"] /\ script' = Head(todo').script
        /\ UNCHANGED <<chaincodeVars, failures, benchmark>>
    BY <1>10 DEF seedAgain
  <2>2. /\ todo' = Plan[tool'] /\ Position' = 1
        /\ Remaining(todo', Plan[tool'])
        /\ todo' # <<>> /\ script' # <<>>
        /\ script' \in Seq(ScriptCalls(AttemptedAction(tool', Position')))
    BY <2>1, PlanStarts DEF Position
  <2>3. UNCHANGED <<failures, round, sent>> /\ tool' = "seeding" /\ phase' = "running"
    BY <2>1 DEF benchmark
  <2> QED
    BY <2>1, <2>2, <2>3 DEF ProgressInv
<1>11. CASE UNCHANGED evaluationVars
  <2>1. /\ UNCHANGED <<tool, phase, todo, script, failures, round, sent>>
        /\ Position' = Position
        /\ UNCHANGED chaincodeVars
    BY <1>11 DEF evaluationVars, progress, benchmark, Position
  <2> QED
    BY <2>1 DEF ProgressInv
<1> QED
  BY <1>5, <1>6, <1>7, <1>8, <1>9, <1>10, <1>11 DEF EvaluationNext, Proceed

EvaluationInv == LedgerInv /\ ProgressInv

\* It holds when a tool starts.
LEMMA EvaluationInvInit == EvaluationInit => EvaluationInv
<1> SUFFICES ASSUME EvaluationInit PROVE EvaluationInv
  OBVIOUS
<1>1. LedgerInv
  BY LedgerInvInit DEF EvaluationInit
<1>2. tool \in {"suite", "pack", "seeding"}
  BY DEF EvaluationInit, Plan
<1>3. /\ todo = Plan[tool] /\ Position = 1
      /\ Remaining(todo, Plan[tool])
      /\ todo # <<>> /\ script # <<>>
      /\ script \in Seq(ScriptCalls(AttemptedAction(tool, Position)))
  BY <1>2, PlanStarts DEF EvaluationInit, Position
<1>4. /\ phase = "running" /\ failures = 0 /\ round = 1
      /\ sent \in [0 .. Workers - 1 -> Nat]
  BY DEF EvaluationInit
<1> QED
  BY <1>1, <1>2, <1>3, <1>4 DEF ProgressInv, EvaluationInv

\* Every step keeps the invariant, and does to the ledger what a client may.
LEMMA EvaluationInvNext ==
  ASSUME EvaluationInv, [EvaluationNext]_evaluationVars
  PROVE  EvaluationInv' /\ [LedgerStep]_chaincodeVars
BY ProgressNext, LedgerInvNext DEF EvaluationInv

\* It holds as long as a tool runs.
LEMMA EvaluationInvariance == EvaluationSpec => []EvaluationInv
<1>1. EvaluationInv /\ [EvaluationNext]_evaluationVars => EvaluationInv'
  BY EvaluationInvNext
<1> QED
  BY <1>1, EvaluationInvInit, PTL DEF EvaluationSpec

\* The evaluation tools are clients of the ledger like any other: whatever
\* calls fail, are repeated or are sent by several workers at once, the ledger
\* sees the transactions of CaseContract and DocumentContract and nothing else
\* (scenario-runner.ts, benchmark-seed.service.ts, document-version.js).
THEOREM EvaluationIsClient == EvaluationSpec => LedgerSpec
<1>1. EvaluationInit => ChaincodeInit
  BY DEF EvaluationInit
<1>2. EvaluationInv /\ [EvaluationNext]_evaluationVars => [LedgerStep]_chaincodeVars
  BY EvaluationInvNext
<1> QED
  BY <1>1, <1>2, EvaluationInvariance, PTL DEF EvaluationSpec, LedgerSpec

\* So the cases that the tools leave behind are in order: every assurance they
\* show was reviewed step by step, and its version counts its instruments.
THEOREM EvaluationKeepsHistory ==
  EvaluationSpec => [](VersionCountsInstruments /\ EveryInstrumentReviewed)
BY EvaluationIsClient, LedgerHistoryCorrect, PTL

-----------------------------------------------------------------------------
(* What a call leaves of the ledger as it is. *)

\* A call changes the record of its own case only: it creates it, relists its
\* documents or applies a rule to it.
LEMMA CasesOfEffect ==
  ASSUME ChaincodeInv, NEW case \in ScriptedCases, NEW action,
         NEW call \in ScriptCalls(action), Effect(case, call)
  PROVE  /\ \A other \in CaseIds : other # case => cases'[other] = cases[other]
         /\ call.call = "createDraft" =>
              ~Exists(case) /\ cases'[case] = DraftCase
         /\ call.call = "upload" =>
              /\ Exists(case)
              /\ \E ids \in SUBSET DocumentIds :
                   cases'[case] = [cases[case] EXCEPT !.activeDocumentIds = ids]
         /\ call.call \in {"transition", "attempt"} =>
              /\ Exists(case)
              /\ AcceptsTransition(case, call)
              /\ \E ids \in SUBSET DocumentIds :
                   cases'[case] = applyTransition(cases[case], call.rule,
                                                  OfficerOf(call.role), ids)
         /\ call.call = "finalize" => cases' = cases
         /\ call.call # "finalize" => RecordInv(cases'[case])
<1>1. /\ case \in CaseIds
      /\ cases \in [CaseIds -> AssuranceCase \cup {NoCase}]
      /\ Exists(case) => RecordInv(cases[case])
  BY IdentifiersAssumption DEF ChaincodeInv, IInv, TypeOK
<1>2. CASE call.call = "createDraft" /\ createCase(case, OfficerOf(Applicant))
  <2>1. ~Exists(case) /\ cases' = [cases EXCEPT ![case] = DraftCase]
    BY <1>2 DEF createCase, putCase
  <2> QED
    BY <1>1, <1>2, <2>1, DraftPreserves
<1>3. CASE call.call = "upload" /\ uploadDocument(case, call)
  <2>1. PICK superseded \in DocumentIds \cup {Undefined},
             reference \in Documents!DocumentReference :
          /\ Anchors(DocumentIdOf(case, call.key), reference, superseded)
          /\ reference.caseId = case
    BY <1>3, UploadAnchors
  <2> DEFINE ids == (cases[case].activeDocumentIds \ {superseded})
                       \cup {DocumentIdOf(case, call.key)}
  <2>2. Relists(case, ids)
    BY <2>1 DEF Anchors
  <2>3. Exists(case) /\ RecordInv(cases[case])
    BY <1>1, <2>2 DEF Relists
  <2>4. ids \in SUBSET DocumentIds
    <3>1. DocumentIdOf(case, call.key) \in DocumentIds
      BY <1>3, CallTypes, IdentifiersAssumption
    <3> QED
      BY <2>3, <3>1 DEF RecordInv, AssuranceCase
  <2>5. cases' = [cases EXCEPT ![case].activeDocumentIds = ids]
    BY <2>2 DEF Relists
  <2> HIDE DEF ids
  <2>6. /\ cases'[case] = [cases[case] EXCEPT !.activeDocumentIds = ids]
        /\ \A other \in CaseIds : other # case => cases'[other] = cases[other]
    BY <1>1, <2>5
  <2>7. RecordInv(cases'[case])
    BY <2>3, <2>4, <2>6, RelistedRecord
  <2> QED
    BY <1>3, <2>3, <2>4, <2>6, <2>7
<1>4. CASE call.call \in {"transition", "attempt"} /\ transitionCase(case, call)
  <2> DEFINE ids == {DocumentIdOf(case, key) : key \in call.keys}
             d == applyTransition(cases[case], call.rule, OfficerOf(call.role), ids)
  <2>1. /\ Exists(case) /\ AcceptsTransition(case, call)
        /\ cases' = [cases EXCEPT ![case] = d]
    BY <1>4 DEF transitionCase, performTransition, putCase, AcceptsTransition
  <2>2. call.keys \in SUBSET ScriptedKeys
    BY <1>4, CallTypes
  <2>3. ids \in SUBSET DocumentIds
    BY <2>2, IdentifiersAssumption
  <2> HIDE DEF ids
  <2>4. /\ cases'[case] = d
        /\ \A other \in CaseIds : other # case => cases'[other] = cases[other]
    BY <1>1, <2>1
  <2>5. RecordInv(d)
    <3>1. /\ OfficerOf(call.role) \in UserClaims /\ call.rule \in TRANSITIONS
          /\ RecordInv(cases[case])
      BY <1>1, <1>4, <2>1, CallTypes, RolesClaim
    <3> QED
      BY <2>1, <2>3, <3>1, TransitionPreserves DEF AcceptsTransition
  <2> QED
    BY <1>4, <2>1, <2>3, <2>4, <2>5
<1>5. CASE call.call = "finalize" /\ UNCHANGED chaincodeVars
  BY <1>5 DEF chaincodeVars, vars
<1> QED
  BY <1>2, <1>3, <1>4, <1>5 DEF Effect

\* Of a reference, whether it is there, its case, its type and its version.
SameReference(d) ==
  /\ documents'[d] = NoDocument <=> documents[d] = NoDocument
  /\ documents[d] # NoDocument =>
       /\ documents'[d].caseId = documents[d].caseId
       /\ documents'[d].documentType = documents[d].documentType
       /\ documents'[d].version = documents[d].version

\* An upload anchors one reference more, the others stay; no other call touches
\* a reference.
LEMMA DocumentsOfEffect ==
  ASSUME ChaincodeInv, NEW case \in ScriptedCases, NEW action,
         NEW call \in ScriptCalls(action), Effect(case, call)
  PROVE  /\ call.call # "upload" => documents' = documents
         /\ call.call = "upload" =>
              LET id == DocumentIdOf(case, call.key)
              IN /\ id \in DocumentIds
                 /\ documents[id] = NoDocument
                 /\ documents'[id] # NoDocument
                 /\ documents'[id].caseId = case
                 /\ documents'[id].documentType = call.key.type
                 /\ call.supersedes = {} => documents'[id].version = 1
                 /\ \A d \in DocumentIds : d # id => SameReference(d)
<1>1. call.call # "upload" => documents' = documents
  BY DEF Effect, transitionCase, chaincodeVars
<1>2. ASSUME call.call = "upload"
      PROVE  LET id == DocumentIdOf(case, call.key)
             IN /\ id \in DocumentIds
                /\ documents[id] = NoDocument
                /\ documents'[id] # NoDocument
                /\ documents'[id].caseId = case
                /\ documents'[id].documentType = call.key.type
                /\ call.supersedes = {} => documents'[id].version = 1
                /\ \A d \in DocumentIds : d # id => SameReference(d)
  <2> DEFINE id == DocumentIdOf(case, call.key)
  <2>1. id \in DocumentIds
    BY <1>2, CallTypes, IdentifiersAssumption
  <2>2. documents \in [DocumentIds -> Documents!DocumentReference \cup {NoDocument}]
    BY DEF ChaincodeInv, ReferencesTyped
  <2>3. uploadDocument(case, call)
    BY <1>2 DEF Effect
  <2>4. PICK superseded \in DocumentIds \cup {Undefined},
             reference \in Documents!DocumentReference :
          /\ Anchors(id, reference, superseded)
          /\ reference.caseId = case
          /\ reference.documentType = call.key.type
          /\ call.supersedes = {} => superseded = Undefined
    BY <1>2, <2>3, UploadAnchors
  <2>5. /\ documents[id] = NoDocument
        /\ reference # NoDocument
        /\ superseded = Undefined => reference.version = 1
    BY <2>4, NoDocumentAssumption DEF Anchors
  <2>6. \/ documents' = [documents EXCEPT ![id] = reference]
        \/ /\ superseded \in DocumentIds /\ documents[superseded] # NoDocument
           /\ documents' = [documents EXCEPT ![superseded].isActive = FALSE,
                                             ![id] = reference]
    BY <2>4 DEF Anchors, Anchored
  <2> HIDE DEF id
  <2>7. documents'[id] = reference
    BY <2>1, <2>2, <2>6
  <2>8. ASSUME NEW d \in DocumentIds, d # id PROVE SameReference(d)
    <3>1. CASE documents' = [documents EXCEPT ![id] = reference]
      BY <2>2, <2>8, <3>1 DEF SameReference
    <3>2. CASE /\ superseded \in DocumentIds /\ documents[superseded] # NoDocument
               /\ documents' = [documents EXCEPT ![superseded].isActive = FALSE,
                                                 ![id] = reference]
      <4>1. CASE d = superseded
        <5>1. documents'[d] = [documents[d] EXCEPT !.isActive = FALSE]
          BY <2>2, <2>8, <3>2, <4>1
        <5>2. documents[d] \in Documents!DocumentReference
          BY <2>2, <3>2, <4>1
        <5>3. documents'[d] \in Documents!DocumentReference
          BY <5>1, <5>2 DEF Documents!DocumentReference
        <5>4. documents'[d] # NoDocument
          BY <5>3, NoDocumentAssumption
        <5>5. /\ documents'[d].caseId = documents[d].caseId
              /\ documents'[d].documentType = documents[d].documentType
              /\ documents'[d].version = documents[d].version
          BY <5>1, <5>2 DEF Documents!DocumentReference
        <5> QED
          BY <3>2, <4>1, <5>4, <5>5 DEF SameReference
      <4>2. CASE d # superseded
        BY <2>2, <2>8, <3>2, <4>2 DEF SameReference
      <4> QED
        BY <4>1, <4>2
    <3> QED
      BY <2>6, <3>1, <3>2
  <2>9. call.supersedes = {} => reference.version = 1
    BY <2>4, <2>5
  <2> QED
    BY <2>1, <2>4, <2>5, <2>7, <2>8, <2>9 DEF id
<1> QED
  BY <1>1, <1>2

-----------------------------------------------------------------------------
(* The report of the seeding. *)

CasesThere == {c \in CaseIds : Exists(c)}
DocumentsThere == {d \in DocumentIds : documents[d] # NoDocument}

\* The tally counts what is on the ledger.
Counted ==
  /\ IsFiniteSet(CasesThere) /\ IsFiniteSet(DocumentsThere)
  /\ tally.cases = Cardinality(CasesThere)
  /\ tally.documents = Cardinality(DocumentsThere)

\* A call that takes effect is counted for what it adds.
LEMMA EffectCounted ==
  ASSUME ChaincodeInv, caseId \in ScriptedCases, NEW action,
         Call \in ScriptCalls(action), Call.call # "attempt",
         Effect(caseId, Call), count, Counted
  PROVE  Counted'
<1>1. PICK case \in ScriptedCases, call \in ScriptCalls(action) :
        case = caseId /\ call = Call
  OBVIOUS
<1>2. Effect(case, call) /\ call.call # "attempt" /\ case \in CaseIds
  BY <1>1, IdentifiersAssumption
<1>3. /\ tally'.cases = tally.cases + IF call.call = "createDraft" THEN 1 ELSE 0
      /\ tally'.documents = tally.documents + IF call.call = "upload" THEN 1 ELSE 0
  BY <1>1 DEF count
<1>4. call.call \in {"createDraft", "upload", "transition", "finalize"}
  BY <1>2, CallTypes
<1> DEFINE ThereAfter == {c \in CaseIds : cases'[c] # NoCase}
           AnchoredAfter == {d \in DocumentIds : documents'[d] # NoDocument}
           id == DocumentIdOf(case, call.key)
<1>5. IF call.call = "createDraft"
      THEN case \notin CasesThere /\ ThereAfter = CasesThere \cup {case}
      ELSE ThereAfter = CasesThere
  <2>1. \A other \in CaseIds : other # case => cases'[other] = cases[other]
    BY <1>2, CasesOfEffect
  <2>2. CASE call.call = "createDraft"
    <3>1. ~Exists(case) /\ cases'[case] # NoCase
      BY <1>2, <2>2, CasesOfEffect, DraftPreserves, CaseContractAssumption
      DEF RecordInv
    <3> QED
      BY <1>2, <2>1, <2>2, <3>1 DEF CasesThere, Exists
  <2>3. CASE call.call \in {"upload", "transition"}
    <3>1. Exists(case) /\ cases'[case] # NoCase
      BY <1>2, <2>3, CasesOfEffect, CaseContractAssumption DEF RecordInv
    <3> QED
      BY <1>2, <2>1, <2>3, <3>1 DEF CasesThere, Exists
  <2>4. CASE call.call = "finalize"
    BY <1>2, <2>4, CasesOfEffect DEF CasesThere, Exists
  <2> QED
    BY <1>4, <2>2, <2>3, <2>4
<1>6. IF call.call = "upload"
      THEN id \notin DocumentsThere /\ AnchoredAfter = DocumentsThere \cup {id}
      ELSE AnchoredAfter = DocumentsThere
  BY <1>2, DocumentsOfEffect DEF DocumentsThere, SameReference
<1>7. CasesThere' = ThereAfter /\ DocumentsThere' = AnchoredAfter
  BY DEF CasesThere, Exists, DocumentsThere
<1> HIDE DEF ThereAfter, AnchoredAfter, id
<1>8. /\ IsFiniteSet(CasesThere) /\ IsFiniteSet(DocumentsThere)
      /\ tally.cases = Cardinality(CasesThere) /\ tally.cases \in Nat
      /\ tally.documents = Cardinality(DocumentsThere) /\ tally.documents \in Nat
  BY FS_CardinalityType DEF Counted
<1>9. /\ IsFiniteSet(ThereAfter)
      /\ Cardinality(ThereAfter)
           = tally.cases + IF call.call = "createDraft" THEN 1 ELSE 0
  BY <1>5, <1>8, FS_AddElement
<1>10. /\ IsFiniteSet(AnchoredAfter)
       /\ Cardinality(AnchoredAfter)
            = tally.documents + IF call.call = "upload" THEN 1 ELSE 0
  BY <1>6, <1>8, FS_AddElement
<1> QED
  BY <1>3, <1>7, <1>9, <1>10 DEF Counted

\* No transaction makes a case disappear: its events would be left behind.
LEMMA CasesStay ==
  ASSUME ChaincodeInv, [LedgerStep]_chaincodeVars, NEW case \in CaseIds,
         Exists(case)
  PROVE  Exists(case)'
<1>1. ChaincodeInv' /\ events \subseteq events'
  BY LedgerStepKeeps, LedgerUnchangedKeeps
<1>2. PICK e \in events : e.caseId = case
  <2>1. /\ 1 \in 1 .. cases[case].auditSequenceNumber
        /\ {e.sequence : e \in Trail(case)} = 1 .. cases[case].auditSequenceNumber
    BY DEF ChaincodeInv, IInv, TrailGapFree, RecordInv, AssuranceCase
  <2> QED
    BY <2>1 DEF Trail
<1>3. Trail(case)' # {}
  BY <1>1, <1>2 DEF Trail
<1>4. TrailGapFree'
  BY <1>1 DEF ChaincodeInv, IInv
<1> QED
  BY <1>3, <1>4 DEF TrailGapFree

firstCase == Plan["seeding"][1].id

AtFirstCall ==
  todo = Plan["seeding"] /\ script = Plan["seeding"][1].script

\* An interrupted seeding leaves its first case behind, if anything.  Started
\* again it asks for that case once more, is refused and ends, so that it never
\* publishes a tally that began at zero on cases that were there.
SeedingInv ==
  tool = "seeding" =>
    /\ \/ Exists(firstCase)
       \/ /\ CasesThere = {} /\ DocumentsThere = {}
          /\ phase = "running" => AtFirstCall
          /\ phase # "published"
    /\ phase = "running" => Counted \/ (Exists(firstCase) /\ AtFirstCall)
    /\ phase = "published" /\ RoundsNotBegun => Counted

\* The first call of the seeding creates its first case.
LEMMA FirstCallCreates ==
  ASSUME AtFirstCall
  PROVE  caseId = firstCase /\ Call = CreateDraft
<1>1. /\ Plan["seeding"] # <<>>
      /\ Head(Plan["seeding"]) = Plan["seeding"][1]
      /\ Plan["seeding"][1].script \in ScriptsOf(AttemptedAction("seeding", 1))
  BY PlansTyped, PlanStarts
<1>2. script # <<>> /\ script[1] = CreateDraft
      /\ script \in Seq(ScriptCalls(AttemptedAction("seeding", 1)))
  BY <1>1 DEF AtFirstCall, ScriptsOf
<1> HIDE DEF ScriptCalls
<1>3. Head(script) = script[1]
  BY <1>2
<1> QED
  BY <1>1, <1>2, <1>3 DEF AtFirstCall, caseId, firstCase, Call

\* No seeding script attempts anything.
LEMMA SeedingAttemptsNothing ==
  ASSUME ProgressInv, phase = "running", tool # "suite"
  PROVE  Call.call # "attempt"
<1>1. Call \in ScriptCalls(Undefined)
  BY AtPosition DEF AttemptedAction
<1> QED
  BY <1>1, CallTypes, RulesInTable

\* It holds when a seeding starts.
LEMMA SeedingInvInit ==
  ASSUME EvaluationInit PROVE SeedingInv
<1>1. \A c \in CaseIds : ~Exists(c)
  BY DEF EvaluationInit, ChaincodeInit, Init, Exists
<1>2. \A d \in DocumentIds : documents[d] = NoDocument
  BY DEF EvaluationInit, ChaincodeInit, Documents!Init
<1>3. CasesThere = {} /\ DocumentsThere = {}
  BY <1>1, <1>2 DEF CasesThere, DocumentsThere
<1>4. tally.cases = 0 /\ tally.documents = 0 /\ phase = "running"
  BY DEF EvaluationInit
<1>5. Counted
  BY <1>3, <1>4, FS_EmptySet DEF Counted
<1>6. tool = "seeding" => AtFirstCall
  BY PlanStarts DEF EvaluationInit, AtFirstCall
<1> QED
  BY <1>3, <1>4, <1>5, <1>6 DEF SeedingInv

\* A seeding keeps it, also when it is interrupted and started again.
LEMMA SeedingInvNext ==
  ASSUME EvaluationInv, SeedingInv, [EvaluationNext]_evaluationVars
  PROVE  SeedingInv'
<1> SUFFICES ASSUME tool' = "seeding" PROVE SeedingInv'
  BY DEF SeedingInv
<1>1. ChaincodeInv /\ ProgressInv /\ ProgressInv' /\ [LedgerStep]_chaincodeVars
  BY EvaluationInvNext DEF EvaluationInv, LedgerInv
<1>2. tool = "seeding"
  BY DEF EvaluationNext, Proceed, performCall, expectScenarioFailure, failCall,
     submitTransaction, nextRound, seedAgain, evaluationVars, progress
<1>3. firstCase \in CaseIds
  BY PlanStarts, PlansTyped, IdentifiersAssumption DEF firstCase
<1>4. Exists(firstCase) => Exists(firstCase)'
  <2>1. PICK case \in CaseIds : case = firstCase
    BY <1>3
  <2>2. Exists(case) => Exists(case)'
    BY <1>1, CasesStay
  <2> QED
    BY <2>1, <2>2 DEF firstCase
<1>5. ASSUME phase = "running"
      PROVE  /\ caseId \in ScriptedCases /\ Call \in ScriptCalls(Undefined)
             /\ Call.call # "attempt"
  BY <1>1, <1>2, <1>5, AtPosition, SeedingAttemptsNothing DEF AttemptedAction
<1>6. ASSUME phase = "running", Effect(caseId, Call)
      PROVE  Exists(firstCase)' /\ ~ (Exists(firstCase) /\ AtFirstCall)
  <2>1. ASSUME AtFirstCall
        PROVE  ~Exists(firstCase) /\ cases'[firstCase] = DraftCase
    <3>1. PICK case \in ScriptedCases, call \in ScriptCalls(Undefined) :
            case = caseId /\ call = Call
      BY <1>5, <1>6
    <3>2. call.call = "createDraft" /\ case = firstCase
      BY <2>1, <3>1, FirstCallCreates DEF CreateDraft
    <3>3. ~Exists(case) /\ cases'[case] = DraftCase
      BY <1>1, <1>6, <3>1, <3>2, CasesOfEffect
    <3> QED
      BY <3>2, <3>3
  <2>2. DraftCase # NoCase
    BY DraftPreserves, CaseContractAssumption DEF RecordInv
  <2>3. CASE Exists(firstCase)
    BY <1>4, <2>1, <2>3
  <2>4. CASE ~Exists(firstCase)
    <3>1. AtFirstCall
      BY <1>2, <1>6, <2>4 DEF SeedingInv
    <3> QED
      BY <2>1, <2>2, <2>4, <3>1 DEF Exists, firstCase
  <2> QED
    BY <2>3, <2>4
<1>7. CASE performCall
  <2>1. phase = "running" /\ Effect(caseId, Call) /\ count
    BY <1>7 DEF performCall
  <2>2. Counted
    BY <1>2, <1>6, <2>1 DEF SeedingInv
  <2>3. Counted'
    BY <1>1, <1>5, <2>1, <2>2, EffectCounted
  <2>4. Exists(firstCase)'
    BY <1>6, <2>1
  <2> QED
    BY <2>3, <2>4 DEF SeedingInv
<1>8. CASE expectScenarioFailure
  BY <1>5, <1>8 DEF expectScenarioFailure
<1>9. ASSUME NEW committed \in BOOLEAN, failCall(committed)
      PROVE  SeedingInv'
  <2>1. /\ phase = "running" /\ phase' = "aborted"
        /\ Effect(caseId, Call) \/ UNCHANGED chaincodeVars
    BY <1>2, <1>9 DEF failCall, giveUp
  <2>2. CASE Effect(caseId, Call)
    BY <1>6, <2>1, <2>2 DEF SeedingInv
  <2>3. CASE UNCHANGED chaincodeVars
    <3>1. CasesThere' = CasesThere /\ DocumentsThere' = DocumentsThere
      BY <2>3 DEF chaincodeVars, vars, CasesThere, DocumentsThere, Exists
    <3> QED
      BY <1>2, <1>4, <2>1, <3>1 DEF SeedingInv
  <2> QED
    BY <2>1, <2>2, <2>3
<1>10. ASSUME phase = "published", phase' = phase, ~RoundsNotBegun'
       PROVE  SeedingInv'
  BY <1>2, <1>4, <1>10 DEF SeedingInv
<1>11. ASSUME NEW worker \in DOMAIN sent, submitTransaction(worker)
       PROVE  SeedingInv'
  <2>1. phase = "published" /\ phase' = phase /\ sent' = [sent EXCEPT ![worker] = @ + 1]
    BY <1>11 DEF submitTransaction, InRounds, progress
  <2>2. sent[worker] \in Nat /\ worker \in DOMAIN sent'
    BY <1>1, <1>11, <2>1 DEF ProgressInv
  <2>3. sent'[worker] # 0
    BY <2>1, <2>2
  <2>4. ~RoundsNotBegun'
    BY <2>2, <2>3 DEF RoundsNotBegun
  <2> QED
    BY <1>10, <2>1, <2>4
<1>12. CASE nextRound
  <2>1. phase = "published" /\ phase' = phase /\ round' = round + 1
    BY <1>12 DEF nextRound, InRounds, progress
  <2>2. ~RoundsNotBegun'
    BY <1>1, <2>1 DEF RoundsNotBegun, ProgressInv
  <2> QED
    BY <1>10, <2>1, <2>2
<1>13. CASE seedAgain
  <2>1. /\ todo' = Plan["seeding"] /\ script' = Head(todo').script
        /\ phase' = "running" /\ phase = "aborted"
        /\ tally' = [cases |-> 0, documents |-> 0]
        /\ UNCHANGED chaincodeVars
    BY <1>13 DEF seedAgain
  <2>2. AtFirstCall'
    BY <2>1, PlanStarts DEF AtFirstCall
  <2>3. CasesThere' = CasesThere /\ DocumentsThere' = DocumentsThere
    BY <2>1 DEF chaincodeVars, vars, CasesThere, DocumentsThere, Exists
  <2>4. CasesThere = {} /\ DocumentsThere = {} => Counted'
    BY <2>1, <2>3, FS_EmptySet DEF Counted
  <2> QED
    BY <1>2, <1>4, <2>1, <2>2, <2>3, <2>4 DEF SeedingInv
<1>14. CASE UNCHANGED evaluationVars
  <2>1. /\ UNCHANGED <<cases, documents, phase, todo, script, tally, round, sent>>
    BY <1>14 DEF evaluationVars, chaincodeVars, vars, progress, benchmark
  <2>2. /\ CasesThere' = CasesThere /\ DocumentsThere' = DocumentsThere
        /\ AtFirstCall' = AtFirstCall /\ RoundsNotBegun' = RoundsNotBegun
        /\ firstCase' = firstCase
    BY <2>1 DEF CasesThere, DocumentsThere, Exists, AtFirstCall, RoundsNotBegun, firstCase
  <2>3. Counted' = Counted
    BY <2>1, <2>2 DEF Counted
  <2> QED
    BY <1>2, <1>4, <2>1, <2>2, <2>3 DEF SeedingInv
<1> QED
  BY <1>7, <1>8, <1>9, <1>11, <1>12, <1>13, <1>14 DEF EvaluationNext, Proceed

-----------------------------------------------------------------------------
(* The scripts, carried out on paper.  A situation is what decides whether  *)
(* the next call on a case succeeds: the fields of its record that the      *)
(* rules of the scripts look at, and the documents uploaded so far.         *)

Situation ==
  [currentState : WorkflowStates \cup {"absent"},
   currentSubstate : WorkflowStates \cup {Undefined},
   pendingAmendmentReviewMode : {"none", "non_substantive", "substantive"},
   auditSequenceNumber : Nat,
   keys : SUBSET ScriptedKeys]

At(state, mode, sequence, keys) ==
  [currentState |-> state, currentSubstate |-> Undefined,
   pendingAmendmentReviewMode |-> mode, auditSequenceNumber |-> sequence,
   keys |-> keys]

Absent  == At("absent", "none", 0, {})
Drafted == At("draft", "none", 1, {})

\* What the rules ask of the record, as far as a situation tells.
SituationAllows(a, rule) ==
  /\ a.currentState \in rule.from
  /\ rule.action = "respond_to_information_request" =>
       a.currentSubstate # Undefined
  /\ rule.action \in AmendmentInitiations \cup {"issue_assurance", "reject_case"} =>
       a.pendingAmendmentReviewMode = "none"
  /\ rule.action = "forward_to_foreign_authority" =>
       a.pendingAmendmentReviewMode # "non_substantive"
  /\ rule.action = "amend_assurance" =>
       \/ a.currentState = "awaiting_coordination"
          /\ a.pendingAmendmentReviewMode = "non_substantive"
       \/ a.currentState = "approved"
          /\ a.pendingAmendmentReviewMode = "substantive"
  /\ rule.action # "reject_amendment"

SituationAfter(a, rule) ==
  [currentState |-> nextState(a, rule),
   currentSubstate |-> nextSubstate(a, rule.action),
   pendingAmendmentReviewMode |-> nextReviewMode(a, rule.action),
   auditSequenceNumber |-> a.auditSequenceNumber + 1,
   keys |-> a.keys]

\* Why an attempt is refused.
Refuses(a, call) ==
  \/ call.expected = "no_transition" /\ a.currentState \notin call.rule.from
  \/ /\ a.currentState \in call.rule.from
     /\ \/ /\ call.expected = "not_allowed"
           /\ ~ActorAllowed(call.rule, OfficerOf(call.role))
        \/ /\ call.expected = "missing_documents"
           /\ ~ (call.rule.requiredDocumentTypes
                   \subseteq {key.type : key \in call.keys})

\* A call succeeds in situation a and leads to situation b.
Takes(a, call, b) ==
  \/ call.call = "createDraft" /\ a = Absent /\ b = Drafted
  \/ /\ call.call = "upload"
     /\ a.currentState # "absent"
     /\ Documents!assertDocumentMutationAllowed(OfficerOf(call.role), call.key.type)
     /\ call.key \notin a.keys
     /\ \/ call.supersedes = {}
        \/ /\ call.supersedes = {Key(call.key.type, 1)}
           /\ call.key.n = 2 /\ Key(call.key.type, 1) \in a.keys
     /\ b = [a EXCEPT !.keys = @ \cup {call.key}]
  \/ /\ call.call = "transition"
     /\ a.currentState # "absent"
     /\ a.auditSequenceNumber < MaxAuditSequence
     /\ ActorAllowed(call.rule, OfficerOf(call.role))
     /\ call.rule.requiredDocumentTypes \subseteq {key.type : key \in call.keys}
     /\ SituationAllows(a, call.rule)
     /\ b = SituationAfter(a, call.rule)
  \/ call.call = "attempt" /\ a.currentState # "absent" /\ Refuses(a, call) /\ b = a
  \/ call.call = "finalize" /\ a.currentState # "absent" /\ b = a

\* A script leads from a to b, by way of the situations of a trace.
Leads(a, s, b) ==
  /\ \E S : s \in Seq(S)
  /\ \E trace \in [0 .. Len(s) -> Situation] :
       /\ trace[0] = a /\ trace[Len(s)] = b
       /\ \A i \in 1 .. Len(s) : Takes(trace[i - 1], s[i], trace[i])

\* A call alone is a script of one step.
LEMMA LeadsOne ==
  ASSUME NEW a \in Situation, NEW b \in Situation, NEW call, Takes(a, call, b)
  PROVE  Leads(a, <<call>>, b)
<1> DEFINE trace == [i \in 0 .. 1 |-> IF i = 0 THEN a ELSE b]
<1>1. Len(<<call>>) = 1 /\ <<call>>[1] = call
  OBVIOUS
<1>2. trace \in [0 .. 1 -> Situation] /\ trace[0] = a /\ trace[1] = b
  OBVIOUS
<1> HIDE DEF trace
<1>3. \A i \in 1 .. 1 : Takes(trace[i - 1], <<call>>[i], trace[i])
  BY <1>1, <1>2
<1>4. <<call>> \in Seq({call})
  OBVIOUS
<1> QED
  BY <1>1, <1>2, <1>3, <1>4 DEF Leads

\* Scripts lead on from where others lead.
LEMMA LeadsJoin ==
  ASSUME NEW s, NEW t, NEW a, NEW b, NEW c, Leads(a, s, b), Leads(b, t, c)
  PROVE  Leads(a, s \o t, c)
<1>0. PICK S : s \in Seq(S) /\ t \in Seq(S)
  <2>1. PICK A, B : s \in Seq(A) /\ t \in Seq(B)
    BY DEF Leads
  <2>2. s \in Seq(A \cup B) /\ t \in Seq(A \cup B)
    BY <2>1
  <2> QED
    BY <2>2
<1>1. PICK f \in [0 .. Len(s) -> Situation] :
        /\ f[0] = a /\ f[Len(s)] = b
        /\ \A i \in 1 .. Len(s) : Takes(f[i - 1], s[i], f[i])
  BY DEF Leads
<1>2. PICK g \in [0 .. Len(t) -> Situation] :
        /\ g[0] = b /\ g[Len(t)] = c
        /\ \A i \in 1 .. Len(t) : Takes(g[i - 1], t[i], g[i])
  BY DEF Leads
<1> DEFINE st == s \o t
           h == [i \in 0 .. Len(s) + Len(t) |->
                   IF i <= Len(s) THEN f[i] ELSE g[i - Len(s)]]
<1>3. /\ Len(s) \in Nat /\ Len(t) \in Nat
      /\ Len(st) = Len(s) + Len(t)
      /\ \A i \in 1 .. Len(s) : st[i] = s[i]
      /\ \A i \in Len(s) + 1 .. Len(s) + Len(t) : st[i] = t[i - Len(s)]
      /\ st \in Seq(S)
  BY <1>0
<1> HIDE DEF st
<1>4. h \in [0 .. Len(s) + Len(t) -> Situation]
  BY <1>3
<1>5. /\ \A i \in 0 .. Len(s) : h[i] = f[i]
      /\ \A i \in Len(s) .. Len(s) + Len(t) : h[i] = g[i - Len(s)]
  BY <1>1, <1>2, <1>3
<1> HIDE DEF h
<1>6. ASSUME NEW i \in 1 .. Len(s) + Len(t)
      PROVE  Takes(h[i - 1], st[i], h[i])
  <2>1. CASE i <= Len(s)
    <3>1. i \in 1 .. Len(s) /\ i - 1 \in 0 .. Len(s) /\ i \in 0 .. Len(s)
      BY <1>3, <2>1
    <3>2. h[i - 1] = f[i - 1] /\ h[i] = f[i] /\ st[i] = s[i]
      BY <1>3, <1>5, <3>1
    <3> QED
      BY <1>1, <3>1, <3>2
  <2>2. CASE i > Len(s)
    <3> DEFINE j == i - Len(s)
    <3>1. /\ j \in 1 .. Len(t) /\ i - 1 \in Len(s) .. Len(s) + Len(t)
          /\ i \in Len(s) .. Len(s) + Len(t) /\ (i - 1) - Len(s) = j - 1
          /\ i \in Len(s) + 1 .. Len(s) + Len(t)
      BY <1>3, <2>2
    <3>2. h[i - 1] = g[j - 1] /\ h[i] = g[j] /\ st[i] = t[j]
      BY <1>3, <1>5, <3>1
    <3> QED
      BY <1>2, <3>1, <3>2
  <2> QED
    BY <1>3, <2>1, <2>2
<1>7. h[0] = a /\ h[Len(s) + Len(t)] = c
  <2>1. 0 \in 0 .. Len(s) /\ Len(s) + Len(t) \in Len(s) .. Len(s) + Len(t)
        /\ (Len(s) + Len(t)) - Len(s) = Len(t)
    BY <1>3
  <2> QED
    BY <1>1, <1>2, <1>5, <2>1
<1>8. Leads(a, st, c)
  BY <1>3, <1>4, <1>6, <1>7 DEF Leads
<1> QED
  BY <1>8 DEF st

\* The first call of a script takes it one situation further.
LEMMA LeadsFirst ==
  ASSUME NEW S, NEW s \in Seq(S), s # <<>>, NEW a, NEW b, Leads(a, s, b)
  PROVE  \E m \in Situation : Takes(a, Head(s), m) /\ Leads(m, Tail(s), b)
<1>1. PICK f \in [0 .. Len(s) -> Situation] :
        /\ f[0] = a /\ f[Len(s)] = b
        /\ \A i \in 1 .. Len(s) : Takes(f[i - 1], s[i], f[i])
  BY DEF Leads
<1> DEFINE t == Tail(s)
           g == [i \in 0 .. Len(s) - 1 |-> f[i + 1]]
<1>2. /\ Len(s) \in Nat /\ Len(s) >= 1
      /\ Head(s) = s[1] /\ Len(t) = Len(s) - 1
      /\ \A i \in 1 .. Len(s) - 1 : t[i] = s[i + 1]
      /\ t \in Seq(S)
  OBVIOUS
<1> HIDE DEF t
<1>3. /\ g \in [0 .. Len(s) - 1 -> Situation]
      /\ g[0] = f[1] /\ g[Len(s) - 1] = b
  BY <1>1, <1>2
<1>4. ASSUME NEW i \in 1 .. Len(s) - 1
      PROVE  Takes(g[i - 1], t[i], g[i])
  <2>1. i - 1 \in 0 .. Len(s) - 1 /\ i \in 0 .. Len(s) - 1 /\ i + 1 \in 1 .. Len(s)
        /\ (i - 1) + 1 = i /\ (i + 1) - 1 = i
    BY <1>2
  <2>2. g[i - 1] = f[i] /\ g[i] = f[i + 1] /\ t[i] = s[i + 1]
    BY <1>2, <2>1
  <2> QED
    BY <1>1, <2>1, <2>2
<1> HIDE DEF g
<1>5. Leads(f[1], t, b)
  BY <1>2, <1>3, <1>4 DEF Leads
<1>6. f[1] \in Situation /\ Takes(a, Head(s), f[1])
  <2>1. 1 \in 1 .. Len(s) /\ 1 \in 0 .. Len(s) /\ 1 - 1 = 0
    BY <1>2
  <2> QED
    BY <1>1, <1>2, <2>1
<1> QED
  BY <1>5, <1>6 DEF t

\* Without calls nothing changes.
LEMMA LeadsNowhere ==
  ASSUME NEW a, NEW s, NEW b, Len(s) = 0, Leads(a, s, b) PROVE a = b
BY DEF Leads

-----------------------------------------------------------------------------
(* A case is in a situation. *)

Fits(c, a) ==
  /\ c.currentState = a.currentState
  /\ c.currentSubstate = a.currentSubstate
  /\ c.pendingAmendmentReviewMode = a.pendingAmendmentReviewMode
  /\ c.auditSequenceNumber = a.auditSequenceNumber

HasDocument(case, key) ==
  LET d == documents[DocumentIdOf(case, key)]
  IN /\ d # NoDocument
     /\ d.caseId = case
     /\ d.documentType = key.type
     /\ key.n = 1 => d.version = 1

Agrees(case, a) ==
  /\ IF a.currentState = "absent" THEN ~Exists(case)
     ELSE Exists(case) /\ Fits(cases[case], a)
  /\ \A key \in ScriptedKeys :
       IF key \in a.keys THEN HasDocument(case, key)
       ELSE documents[DocumentIdOf(case, key)] = NoDocument

\* The rules whose conditions on the record a situation leaves to RecordInv.
LEMMA RulesFrom ==
  ASSUME NEW rule \in TRANSITIONS
  PROVE  /\ rule.action = "approve_case" => rule.from = {"under_foreign_review"}
         /\ rule.action \in AmendmentInitiations => rule.from = InForceStates
         /\ rule.to = "resume_from_amendment_base" => rule.action = "reject_amendment"
BY DEF TRANSITIONS, AmendmentInitiations, Rule, SubmitCaseRule,
   RecordDomesticReviewRule, RequestMoreInformationRule,
   RespondToInformationRequestRule, ForwardToCoordinationRule,
   ForwardToForeignAuthorityRule, RecordForeignReviewRule,
   ApproveCaseRule, RejectCaseRule, InitiateNonSubstantiveAmendmentRule,
   InitiateSubstantiveAmendmentRule, IssueAssuranceRule, AmendAssuranceRule,
   RejectAmendmentRule, RevokeAssuranceRule, CloseCaseRule

\* What a situation allows, every record in it allows, and the transition
\* takes the record where it takes the situation.
LEMMA SituationTells ==
  ASSUME NEW c, RecordInv(c), NEW a \in Situation, Fits(c, a),
         NEW rule \in TRANSITIONS, SituationAllows(a, rule)
  PROVE  /\ c.currentState \in rule.from
         /\ RecordAllows(c, rule.action)
         /\ \A actor, ids :
              Fits(applyTransition(c, rule, actor, ids), SituationAfter(a, rule))
<1>1. c.currentState \in rule.from
  BY DEF Fits, SituationAllows
<1>2. rule.action = "approve_case" => c.domesticRegulatorStatus = "endorsed"
  <2>1. rule.action = "approve_case" => c.currentState = "under_foreign_review"
    BY <1>1, RulesFrom
  <2> QED
    BY <2>1 DEF RecordInv, Endorsed, EffectiveLane, EndorsedLanes
<1>3. rule.action \in AmendmentInitiations =>
        /\ c.currentAssuranceVersion >= 1
        /\ c.issuanceStatus = "issued"
  <2>1. rule.action \in AmendmentInitiations => c.currentState \in InForceStates
    BY <1>1, RulesFrom
  <2>2. c.currentAssuranceVersion \in Nat
    BY DEF RecordInv, AssuranceCase
  <2> QED
    BY <2>1, <2>2 DEF RecordInv, IssuanceConsistent
<1>4. RecordAllows(c, rule.action)
  BY <1>2, <1>3 DEF RecordAllows, SituationAllows, Fits, AmendmentInitiations
<1>5. ASSUME NEW actor, NEW ids
      PROVE  Fits(applyTransition(c, rule, actor, ids), SituationAfter(a, rule))
  <2>1. rule.to # "resume_from_amendment_base"
    BY RulesFrom DEF SituationAllows
  <2>2. nextState(c, rule) = nextState(a, rule)
    BY <2>1 DEF nextState, Fits
  <2>3. nextSubstate(c, rule.action) = nextSubstate(a, rule.action)
    BY DEF nextSubstate, Fits
  <2>4. nextReviewMode(c, rule.action) = nextReviewMode(a, rule.action)
    BY DEF nextReviewMode, Fits
  <2>5. c.auditSequenceNumber + 1 = a.auditSequenceNumber + 1
    BY DEF Fits
  <2> QED
    BY <2>2, <2>3, <2>4, <2>5 DEF applyTransition, SituationAfter, Fits
<1> QED
  BY <1>1, <1>4, <1>5

\* No call is of two kinds.
LEMMA CallsDistinct ==
  /\ "createDraft" \notin {"upload", "transition", "attempt", "finalize"}
  /\ "upload" \notin {"transition", "attempt", "finalize"}
  /\ "transition" \notin {"attempt", "finalize"} /\ "attempt" # "finalize"
OBVIOUS

\* In a situation that a call can be taken in, the ledger accepts the call, or
\* refuses the attempt for the reason looked for.
LEMMA TakesAccepts ==
  ASSUME ChaincodeInv, MaxAuditSequence >= 1, NEW case \in ScriptedCases,
         NEW action, NEW call \in ScriptCalls(action),
         NEW a \in Situation, NEW b, Takes(a, call, b), Agrees(case, a)
  PROVE  /\ call.call # "attempt" => Accepts(case, call)
         /\ call.call = "attempt" =>
              /\ call.expected \in refusalReasons(cases[case], call)
              /\ ~AcceptsTransition(case, call)
<1>1. case \in CaseIds /\ (Exists(case) => RecordInv(cases[case]))
  BY IdentifiersAssumption DEF ChaincodeInv, IInv
<1>2. CASE call.call = "createDraft"
  <2>1. a = Absent
    BY <1>2, CallsDistinct DEF Takes
  <2>2. ~Exists(case)
    BY <2>1 DEF Agrees, Absent, At
  <2>3. assertCreateCaseAllowed(OfficerOf(Applicant))
    BY DEF assertCreateCaseAllowed, ActorInGoodStanding, OfficerOf,
       OrganizationOf, AllowedActions
  <2> QED
    BY <1>2, <2>2, <2>3, CallsDistinct DEF Accepts, AcceptsDraft
<1>3. CASE call.call = "upload"
  <2>1. /\ call.key \in ScriptedKeys
        /\ a.currentState # "absent"
        /\ Documents!assertDocumentMutationAllowed(OfficerOf(call.role), call.key.type)
        /\ call.key \notin a.keys
        /\ \/ call.supersedes = {}
           \/ /\ call.supersedes = {Key(call.key.type, 1)}
              /\ call.key.n = 2 /\ Key(call.key.type, 1) \in a.keys
    BY <1>3, CallTypes, CallsDistinct DEF Takes
  <2>2. Exists(case) /\ documents[DocumentIdOf(case, call.key)] = NoDocument
    BY <2>1 DEF Agrees
  <2>3. ASSUME call.supersedes # {}
        PROVE  \E key \in call.supersedes :
                 LET superseded == documents[DocumentIdOf(case, key)]
                 IN /\ superseded # NoDocument
                    /\ superseded.caseId = case
                    /\ superseded.documentType = call.key.type
                    /\ call.key.n = superseded.version + 1
    <3> DEFINE key == Key(call.key.type, 1)
    <3>1. key \in call.supersedes /\ call.key.n = 2 /\ key \in a.keys
      BY <2>1, <2>3
    <3>2. key \in ScriptedKeys /\ key.n = 1 /\ key.type = call.key.type
      BY <2>1 DEF Key, ScriptedKeys
    <3> HIDE DEF key
    <3>3. HasDocument(case, key)
      BY <3>1, <3>2 DEF Agrees
    <3> QED
      BY <3>1, <3>2, <3>3 DEF HasDocument
  <2> QED
    BY <1>3, <2>1, <2>2, <2>3, CallsDistinct DEF Accepts, AcceptsDocument
<1>4. CASE call.call = "transition"
  <2>1. /\ call.rule \in TRANSITIONS
        /\ a.currentState # "absent"
        /\ a.auditSequenceNumber < MaxAuditSequence
        /\ ActorAllowed(call.rule, OfficerOf(call.role))
        /\ call.rule.requiredDocumentTypes \subseteq {key.type : key \in call.keys}
        /\ SituationAllows(a, call.rule)
    BY <1>4, CallTypes, CallsDistinct DEF Takes
  <2>2. Exists(case) /\ Fits(cases[case], a)
    BY <2>1 DEF Agrees
  <2>3. /\ cases[case].currentState \in call.rule.from
        /\ RecordAllows(cases[case], call.rule.action)
    BY <1>1, <2>1, <2>2, SituationTells
  <2>4. cases[case].auditSequenceNumber < MaxAuditSequence
    BY <2>1, <2>2 DEF Fits
  <2> QED
    BY <1>4, <2>1, <2>2, <2>3, <2>4, CallsDistinct
    DEF Accepts, AcceptsTransition, evaluateTransition
<1>5. CASE call.call = "attempt"
  <2>1. Refuses(a, call) /\ a.currentState # "absent"
    BY <1>5, CallsDistinct DEF Takes
  <2>2. cases[case].currentState = a.currentState
    BY <2>1 DEF Agrees, Fits
  <2>3. call.expected \in refusalReasons(cases[case], call)
    BY <2>1, <2>2 DEF Refuses, refusalReasons
  <2>4. ~AcceptsTransition(case, call)
    BY <2>1, <2>2 DEF Refuses, AcceptsTransition, evaluateTransition
  <2> QED
    BY <1>5, <2>3, <2>4
<1>6. CASE call.call = "finalize"
  BY <1>6, CallsDistinct DEF Accepts
<1> QED
  BY <1>2, <1>3, <1>4, <1>5, <1>6, CallTypes

\* A call that takes effect takes its case to the next situation.
LEMMA EffectTakes ==
  ASSUME ChaincodeInv, NEW case \in ScriptedCases,
         NEW action, NEW call \in ScriptCalls(action), call.call # "attempt",
         NEW a \in Situation, NEW b, Takes(a, call, b), Agrees(case, a),
         Effect(case, call)
  PROVE  Agrees(case, b)' /\ b.currentState # "absent"
<1>1. case \in CaseIds /\ (Exists(case) => RecordInv(cases[case]))
  BY IdentifiersAssumption DEF ChaincodeInv, IInv
<1>2. ASSUME documents' = documents, NEW key \in ScriptedKeys
      PROVE  /\ HasDocument(case, key)' = HasDocument(case, key)
             /\ documents'[DocumentIdOf(case, key)] = documents[DocumentIdOf(case, key)]
  BY <1>2 DEF HasDocument
<1>3. call.call # "upload" => documents' = documents
  BY DocumentsOfEffect
<1>4. CASE call.call = "createDraft"
  <2>1. a = Absent /\ b = Drafted
    BY <1>4, CallsDistinct DEF Takes
  <2>2. cases'[case] = DraftCase
    BY <1>4, CasesOfEffect
  <2>3. DraftCase # NoCase
    BY DraftPreserves, CaseContractAssumption DEF RecordInv
  <2>4. b.currentState = "draft" /\ a.keys = b.keys
    BY <2>1 DEF Absent, Drafted, At
  <2>5. (Exists(case) /\ Fits(cases[case], b))'
    BY <2>1, <2>2, <2>3 DEF Exists, Fits, DraftCase, Drafted, At
  <2> QED
    BY <1>2, <1>3, <1>4, <2>4, <2>5, CallsDistinct DEF Agrees
<1>5. CASE call.call = "upload"
  <2>1. /\ call.key \in ScriptedKeys
        /\ a.currentState # "absent"
        /\ call.supersedes = {} \/ call.key.n = 2
        /\ b = [a EXCEPT !.keys = @ \cup {call.key}]
    BY <1>5, CallTypes, CallsDistinct DEF Takes
  <2>2. /\ b.currentState = a.currentState /\ b.currentSubstate = a.currentSubstate
        /\ b.pendingAmendmentReviewMode = a.pendingAmendmentReviewMode
        /\ b.auditSequenceNumber = a.auditSequenceNumber
        /\ b.keys = a.keys \cup {call.key}
    BY <2>1 DEF Situation
  <2>3. Exists(case) /\ Fits(cases[case], a) /\ RecordInv(cases[case])
    BY <1>1, <2>1 DEF Agrees
  <2>4. PICK ids \in SUBSET DocumentIds :
          /\ cases'[case] = [cases[case] EXCEPT !.activeDocumentIds = ids]
          /\ cases'[case] # NoCase
    BY <1>5, CasesOfEffect, CallsDistinct, CaseContractAssumption DEF RecordInv
  <2>5. (Exists(case) /\ Fits(cases[case], b))'
    BY <2>2, <2>3, <2>4 DEF Exists, Fits, RecordInv, AssuranceCase
  <2> DEFINE id == DocumentIdOf(case, call.key)
  <2>6. /\ documents'[id] # NoDocument /\ documents'[id].caseId = case
        /\ documents'[id].documentType = call.key.type
        /\ call.supersedes = {} => documents'[id].version = 1
        /\ \A d \in DocumentIds : d # id => SameReference(d)
    BY <1>5, DocumentsOfEffect
  <2>7. HasDocument(case, call.key)'
    BY <2>1, <2>6 DEF HasDocument
  <2> HIDE DEF id
  <2>8. ASSUME NEW key \in ScriptedKeys
        PROVE  IF key \in b.keys THEN HasDocument(case, key)'
               ELSE documents'[DocumentIdOf(case, key)] = NoDocument
    <3>1. CASE key = call.key
      BY <2>2, <2>7, <3>1
    <3>2. CASE key # call.key
      <4>1. DocumentIdOf(case, key) # id /\ DocumentIdOf(case, key) \in DocumentIds
        BY <2>1, <3>2, IdentifiersAssumption DEF id
      <4>2. SameReference(DocumentIdOf(case, key))
        BY <2>6, <4>1
      <4>3. key \in b.keys <=> key \in a.keys
        BY <2>2, <3>2
      <4>4. IF key \in a.keys THEN HasDocument(case, key)
            ELSE documents[DocumentIdOf(case, key)] = NoDocument
        BY DEF Agrees
      <4> QED
        BY <4>2, <4>3, <4>4 DEF SameReference, HasDocument
    <3> QED
      BY <3>1, <3>2
  <2> QED
    BY <2>1, <2>2, <2>5, <2>8 DEF Agrees
<1>6. CASE call.call = "transition"
  <2>1. /\ call.rule \in TRANSITIONS
        /\ a.currentState # "absent"
        /\ SituationAllows(a, call.rule)
        /\ b = SituationAfter(a, call.rule)
    BY <1>6, CallTypes, CallsDistinct DEF Takes
  <2>2. Exists(case) /\ Fits(cases[case], a) /\ RecordInv(cases[case])
    BY <1>1, <2>1 DEF Agrees
  <2>3. PICK ids \in SUBSET DocumentIds :
          /\ cases'[case] = applyTransition(cases[case], call.rule,
                                            OfficerOf(call.role), ids)
          /\ RecordInv(cases'[case])
    BY <1>6, CasesOfEffect, CallsDistinct
  <2>4. Fits(cases'[case], b) /\ cases'[case] # NoCase
    BY <2>1, <2>2, <2>3, SituationTells, CaseContractAssumption DEF RecordInv
  <2>5. b.keys = a.keys
    BY <2>1 DEF SituationAfter
  <2>6. b.currentState # "absent"
    <3>1. cases'[case].currentState \in WorkflowStates
      BY <2>3 DEF RecordInv, AssuranceCase
    <3> QED
      BY <2>4, <3>1 DEF Fits, WorkflowStates
  <2> QED
    BY <1>2, <1>3, <1>6, <2>4, <2>5, <2>6, CallsDistinct DEF Agrees, Exists, Fits
<1>7. CASE call.call = "finalize"
  <2>1. b = a /\ cases' = cases /\ documents' = documents
        /\ a.currentState # "absent"
    BY <1>3, <1>7, CasesOfEffect, CallsDistinct DEF Takes
  <2> QED
    BY <1>2, <2>1 DEF Agrees, Exists, Fits
<1> QED
  BY <1>4, <1>5, <1>6, <1>7, CallTypes

\* The situations of the other cases stay.
LEMMA OthersAgree ==
  ASSUME ChaincodeInv, NEW case \in ScriptedCases,
         NEW action, NEW call \in ScriptCalls(action), Effect(case, call),
         NEW other \in ScriptedCases, other # case, NEW a, Agrees(other, a)
  PROVE  /\ Agrees(other, a)'
         /\ cases'[other] = cases[other]
<1>1. cases'[other] = cases[other]
  BY CasesOfEffect, IdentifiersAssumption
<1>2. ASSUME NEW key \in ScriptedKeys
      PROVE  IF key \in a.keys THEN HasDocument(other, key)'
             ELSE documents'[DocumentIdOf(other, key)] = NoDocument
  <2> DEFINE id == DocumentIdOf(other, key)
  <2>1. IF key \in a.keys THEN HasDocument(other, key)
        ELSE documents[DocumentIdOf(other, key)] = NoDocument
    BY DEF Agrees
  <2>2. SameReference(id)
    <3>1. CASE call.call = "upload"
      <4>1. call.key \in ScriptedKeys
        BY <3>1, CallTypes
      <4>2. id # DocumentIdOf(case, call.key) /\ id \in DocumentIds
        BY <4>1, IdentifiersAssumption
      <4> QED
        BY <3>1, <4>2, DocumentsOfEffect
    <3>2. CASE call.call # "upload"
      BY <3>2, DocumentsOfEffect DEF SameReference
    <3> QED
      BY <3>1, <3>2
  <2> QED
    BY <2>1, <2>2 DEF SameReference, HasDocument
<1> QED
  BY <1>1, <1>2 DEF Agrees, Exists

\* Scripts of two, three and four calls.
LEMMA LeadsTwo ==
  ASSUME NEW a \in Situation, NEW b \in Situation, NEW c \in Situation,
         NEW first, NEW second, Takes(a, first, b), Takes(b, second, c)
  PROVE  Leads(a, <<first, second>>, c)
<1>1. Leads(a, <<first>>, b) /\ Leads(b, <<second>>, c)
  BY LeadsOne
<1>2. <<first>> \o <<second>> = <<first, second>>
  <2> DEFINE S == {first, second}
             s == <<first>> \o <<second>>
             t == <<first, second>>
  <2>1. <<first>> \in Seq(S) /\ <<second>> \in Seq(S)
    OBVIOUS
  <2>2. s \in Seq(S) /\ Len(s) = 2 /\ s[1] = first /\ s[2] = second
    BY <2>1
  <2>3. t \in Seq(S) /\ Len(t) = 2 /\ t[1] = first /\ t[2] = second
    OBVIOUS
  <2> HIDE DEF s, t
  <2>4. s = [i \in 1 .. 2 |-> s[i]] /\ t = [i \in 1 .. 2 |-> t[i]]
    BY <2>2, <2>3
  <2>5. \A i \in 1 .. 2 : s[i] = t[i]
    BY <2>2, <2>3
  <2>6. s = t
    BY <2>4, <2>5
  <2> QED
    BY <2>6 DEF s, t
<1> QED
  BY <1>1, <1>2, LeadsJoin

\* Three calls.
LEMMA LeadsThree ==
  ASSUME NEW a \in Situation, NEW b \in Situation, NEW c \in Situation,
         NEW d \in Situation, NEW first, NEW second, NEW third,
         Takes(a, first, b), Takes(b, second, c), Takes(c, third, d)
  PROVE  Leads(a, <<first, second, third>>, d)
<1> DEFINE s == <<first, second, third>>
           trace == [i \in 0 .. 3 |-> IF i = 0 THEN a ELSE IF i = 1 THEN b
                                      ELSE IF i = 2 THEN c ELSE d]
<1>1. /\ s \in Seq({first, second, third}) /\ Len(s) = 3
      /\ s[1] = first /\ s[2] = second /\ s[3] = third
  OBVIOUS
<1>2. /\ trace \in [0 .. 3 -> Situation]
      /\ trace[0] = a /\ trace[1] = b /\ trace[2] = c /\ trace[3] = d
  OBVIOUS
<1> HIDE DEF s, trace
<1>3. \A i \in 1 .. 3 : Takes(trace[i - 1], s[i], trace[i])
  BY <1>1, <1>2
<1>4. Leads(a, s, d)
  BY <1>1, <1>2, <1>3 DEF Leads
<1> QED
  BY <1>4 DEF s

\* Four calls.
LEMMA LeadsFour ==
  ASSUME NEW a \in Situation, NEW b \in Situation, NEW c \in Situation,
         NEW d \in Situation, NEW e \in Situation,
         NEW first, NEW second, NEW third, NEW fourth,
         Takes(a, first, b), Takes(b, second, c), Takes(c, third, d),
         Takes(d, fourth, e)
  PROVE  Leads(a, <<first, second, third, fourth>>, e)
<1> DEFINE s == <<first, second, third, fourth>>
           trace == [i \in 0 .. 4 |-> IF i = 0 THEN a ELSE IF i = 1 THEN b
                       ELSE IF i = 2 THEN c ELSE IF i = 3 THEN d ELSE e]
<1>1. /\ s \in Seq({first, second, third, fourth}) /\ Len(s) = 4
      /\ s[1] = first /\ s[2] = second /\ s[3] = third /\ s[4] = fourth
  OBVIOUS
<1>2. /\ trace \in [0 .. 4 -> Situation]
      /\ trace[0] = a /\ trace[1] = b /\ trace[2] = c /\ trace[3] = d
      /\ trace[4] = e
  OBVIOUS
<1> HIDE DEF s, trace
<1>3. \A i \in 1 .. 4 : Takes(trace[i - 1], s[i], trace[i])
  BY <1>1, <1>2
<1>4. Leads(a, s, e)
  BY <1>1, <1>2, <1>3 DEF Leads
<1> QED
  BY <1>4 DEF s

-----------------------------------------------------------------------------
(* The parts of the scripts, each from the situation it finds.  No trail is *)
(* longer than that of a substantive amendment, fourteen events.            *)

RoomForScripts == MaxAuditSequence >= 14

Modes == {"none", "non_substantive", "substantive"}

\* At is a situation of a case.
LEMMA AtTyped ==
  ASSUME NEW state \in WorkflowStates \cup {"absent"}, NEW mode \in Modes,
         NEW sequence \in Nat, NEW keys \in SUBSET ScriptedKeys
  PROVE  At(state, mode, sequence, keys) \in Situation
BY DEF At, Situation, Modes

\* The officers of the scripts may upload what they upload.
LEMMA UploadsAllowed ==
  LET May(role, type) ==
        Documents!assertDocumentMutationAllowed(OfficerOf(role), type)
  IN /\ \A type \in {"assurance_application_form", "item_technical_specification",
                     "end_use_declaration", "supporting_correspondence",
                     "transport_authorization", "package_design_certificate",
                     "response_to_information_package"} : May(Applicant, type)
     /\ \A type \in {"amendment_request_package", "revocation_notice",
                     "request_for_information_notice"} : May(Domestic, type)
     /\ \A type \in {"coordination_forwarding_package", "assurance_instrument"} :
          May(Coordination, type)
     /\ \A type \in {"foreign_regulator_response",
                     "request_for_information_notice"} : May(Foreign, type)
BY DEF Documents!assertDocumentMutationAllowed, Documents!ActorInGoodStanding,
       Documents!OrganizationOf, Documents!REGULATOR_DOCUMENT_OWNERS,
       Documents!ReviewerOrgs, Documents!ApplicantOrgs, Documents!NationalOrgs,
       OfficerOf, OrganizationOf

\* A key is its type and its number.
LEMMA KeysEqual ==
  \A type, other, n, m :
    /\ Key(type, n) = Key(other, m) <=> type = other /\ n = m
    /\ Key(type, n).type = type /\ Key(type, n).n = n
BY DEF Key

\* An upload adds its key.
LEMMA UploadTaken ==
  ASSUME NEW state \in WorkflowStates, NEW mode, NEW sequence,
         NEW keys \in SUBSET ScriptedKeys, NEW role, NEW type, NEW n,
         NEW supersedes,
         Documents!assertDocumentMutationAllowed(OfficerOf(role), type),
         Key(type, n) \notin keys,
         \/ supersedes = {}
         \/ supersedes = {Key(type, 1)} /\ n = 2 /\ Key(type, 1) \in keys
  PROVE  Takes(At(state, mode, sequence, keys),
               UploadNth(role, type, n, supersedes),
               At(state, mode, sequence, keys \cup {Key(type, n)}))
<1> DEFINE call == UploadNth(role, type, n, supersedes)
           a == At(state, mode, sequence, keys)
<1>1. /\ call.call = "upload" /\ call.role = role /\ call.key = Key(type, n)
      /\ call.supersedes = supersedes
      /\ call.key.type = type /\ call.key.n = n
  BY DEF UploadNth, Key
<1>2. a.currentState # "absent" /\ a.keys = keys
  BY DEF At, WorkflowStates
<1>3. [a EXCEPT !.keys = @ \cup {Key(type, n)}]
        = At(state, mode, sequence, keys \cup {Key(type, n)})
  BY DEF At
<1> HIDE DEF call, a
<1>4. Takes(a, call, [a EXCEPT !.keys = @ \cup {Key(type, n)}])
  BY <1>1, <1>2 DEF Takes
<1> QED
  BY <1>3, <1>4 DEF call, a

\* A transition moves the state and the trail.
LEMMA TransitionTaken ==
  ASSUME NEW state \in WorkflowStates, NEW mode, NEW sequence, NEW keys,
         NEW role, NEW rule, NEW documentKeys,
         sequence < MaxAuditSequence,
         ActorAllowed(rule, OfficerOf(role)),
         rule.requiredDocumentTypes \subseteq {key.type : key \in documentKeys},
         SituationAllows(At(state, mode, sequence, keys), rule)
  PROVE  Takes(At(state, mode, sequence, keys),
               Transition(role, rule, documentKeys),
               SituationAfter(At(state, mode, sequence, keys), rule))
<1> DEFINE call == Transition(role, rule, documentKeys)
           a == At(state, mode, sequence, keys)
<1>1. /\ call.call = "transition" /\ call.role = role /\ call.rule = rule
      /\ call.keys = documentKeys
  BY DEF Transition
<1>2. a.currentState # "absent" /\ a.auditSequenceNumber = sequence
  BY DEF At, WorkflowStates
<1> HIDE DEF call, a
<1>3. Takes(a, call, SituationAfter(a, rule))
  BY <1>1, <1>2 DEF Takes, a
<1> QED
  BY <1>3 DEF call, a

\* A rule moves a situation of a script.
Goes(state, mode, role, rule, to, newMode) ==
  \A sequence \in Nat, keys \in SUBSET ScriptedKeys : \A documentKeys :
    /\ sequence < MaxAuditSequence
    /\ rule.requiredDocumentTypes \subseteq {key.type : key \in documentKeys}
    => Takes(At(state, mode, sequence, keys), Transition(role, rule, documentKeys),
             At(to, newMode, sequence + 1, keys))

\* How to show that a rule moves a situation.
LEMMA RuleGoes ==
  ASSUME NEW state \in WorkflowStates, NEW mode, NEW role, NEW rule, NEW to, NEW newMode,
         ActorAllowed(rule, OfficerOf(role)),
         \A sequence, keys : SituationAllows(At(state, mode, sequence, keys), rule),
         \A sequence, keys : SituationAfter(At(state, mode, sequence, keys), rule)
                               = At(to, newMode, sequence + 1, keys)
  PROVE  Goes(state, mode, role, rule, to, newMode)
BY TransitionTaken DEF Goes

\* The transitions of the scripts, except those of an information request.
LEMMA ScriptTransitions ==
  /\ Goes("draft", "none", Applicant, SubmitCaseRule,
          "submitted", "none")
  /\ Goes("submitted", "none", Domestic, RecordDomesticReviewRule,
          "under_domestic_review", "none")
  /\ \A mode \in {"none", "substantive"} :
       Goes("under_domestic_review", mode, Domestic, ForwardToCoordinationRule,
            "awaiting_coordination", mode)
  /\ \A mode \in {"none", "substantive"} :
       Goes("awaiting_coordination", mode, Coordination, ForwardToForeignAuthorityRule,
            "forwarded_to_foreign_authority", mode)
  /\ \A mode \in {"none", "substantive"} :
       Goes("forwarded_to_foreign_authority", mode, Foreign, RecordForeignReviewRule,
            "under_foreign_review", mode)
  /\ \A mode \in {"none", "substantive"} :
       Goes("under_foreign_review", mode, Foreign, ApproveCaseRule,
            "approved", mode)
  /\ Goes("under_domestic_review", "none", Domestic, RejectCaseRule,
          "rejected", "none")
  /\ Goes("approved", "none", Coordination, IssueAssuranceRule,
          "issued", "none")
  /\ Goes("issued", "none", Domestic, InitiateNonSubstantiveAmendmentRule,
          "awaiting_coordination", "non_substantive")
  /\ Goes("issued", "none", Domestic, InitiateSubstantiveAmendmentRule,
          "under_domestic_review", "substantive")
  /\ Goes("awaiting_coordination", "non_substantive", Coordination, AmendAssuranceRule,
          "amended", "none")
  /\ Goes("approved", "substantive", Coordination, AmendAssuranceRule,
          "amended", "none")
  /\ Goes("issued", "none", Domestic, RevokeAssuranceRule,
          "revoked", "none")
<1> USE DEF SituationAllows, SituationAfter, At, nextState, nextSubstate,
       nextReviewMode, ClosesAmendment, AmendmentInitiations, InForceStates,
       ReviewLanes, WorkflowStates, Rule, Undefined, ActorAllowed,
       ActorInGoodStanding, OfficerOf, OrganizationOf, AllowedActions,
       ApplicantRoles, ApplicantOrgs, ReviewerRoles, ReviewerOrgs,
       NationalRoles, NationalOrgs
<1>1. Goes("draft", "none", Applicant, SubmitCaseRule,
           "submitted", "none")
  BY RuleGoes DEF SubmitCaseRule
<1>2. Goes("submitted", "none", Domestic, RecordDomesticReviewRule,
           "under_domestic_review", "none")
  BY RuleGoes DEF RecordDomesticReviewRule
<1>3. ASSUME NEW mode \in {"none", "substantive"}
      PROVE  Goes("under_domestic_review", mode, Domestic, ForwardToCoordinationRule,
                  "awaiting_coordination", mode)
  BY RuleGoes DEF ForwardToCoordinationRule
<1>4. ASSUME NEW mode \in {"none", "substantive"}
      PROVE  Goes("awaiting_coordination", mode, Coordination, ForwardToForeignAuthorityRule,
                  "forwarded_to_foreign_authority", mode)
  BY RuleGoes DEF ForwardToForeignAuthorityRule
<1>5. ASSUME NEW mode \in {"none", "substantive"}
      PROVE  Goes("forwarded_to_foreign_authority", mode, Foreign, RecordForeignReviewRule,
                  "under_foreign_review", mode)
  BY RuleGoes DEF RecordForeignReviewRule
<1>6. ASSUME NEW mode \in {"none", "substantive"}
      PROVE  Goes("under_foreign_review", mode, Foreign, ApproveCaseRule,
                  "approved", mode)
  BY RuleGoes DEF ApproveCaseRule
<1>7. Goes("under_domestic_review", "none", Domestic, RejectCaseRule,
           "rejected", "none")
  BY RuleGoes DEF RejectCaseRule
<1>8. Goes("approved", "none", Coordination, IssueAssuranceRule,
           "issued", "none")
  BY RuleGoes DEF IssueAssuranceRule
<1>9. Goes("issued", "none", Domestic, InitiateNonSubstantiveAmendmentRule,
           "awaiting_coordination", "non_substantive")
  BY RuleGoes DEF InitiateNonSubstantiveAmendmentRule
<1>10. Goes("issued", "none", Domestic, InitiateSubstantiveAmendmentRule,
           "under_domestic_review", "substantive")
  BY RuleGoes DEF InitiateSubstantiveAmendmentRule
<1>11. Goes("awaiting_coordination", "non_substantive", Coordination, AmendAssuranceRule,
           "amended", "none")
  BY RuleGoes DEF AmendAssuranceRule
<1>12. Goes("approved", "substantive", Coordination, AmendAssuranceRule,
           "amended", "none")
  BY RuleGoes DEF AmendAssuranceRule
<1>13. Goes("issued", "none", Domestic, RevokeAssuranceRule,
           "revoked", "none")
  BY RuleGoes DEF RevokeAssuranceRule
<1> QED
  BY <1>1, <1>2, <1>3, <1>4, <1>5, <1>6, <1>7,
     <1>8, <1>9, <1>10, <1>11, <1>12, <1>13

\* The round of a review: forwarded, reviewed, approved.
LEMMA ForwardingLeads ==
  ASSUME RoomForScripts, NEW mode \in {"none", "substantive"},
         NEW sequence \in Nat, sequence + 3 <= 14,
         NEW keys \in SUBSET ScriptedKeys, NEW n \in {1, 2},
         Key("coordination_forwarding_package", n) \notin keys
  PROVE  Leads(At("under_domestic_review", mode, sequence, keys), Forwarding(n),
               At("under_foreign_review", mode, sequence + 3,
                  keys \cup {Key("coordination_forwarding_package", n)}))
<1> DEFINE key == Key("coordination_forwarding_package", n)
           more == keys \cup {key}
           a == At("under_domestic_review", mode, sequence, keys)
           b == At("awaiting_coordination", mode, sequence + 1, keys)
           c == At("awaiting_coordination", mode, sequence + 1, more)
           d == At("forwarded_to_foreign_authority", mode, (sequence + 1) + 1, more)
           e == At("under_foreign_review", mode, ((sequence + 1) + 1) + 1, more)
<1>1. key \in ScriptedKeys /\ key.type = "coordination_forwarding_package"
  BY DEF Key, ScriptedKeys, DOCUMENT_TYPES
<1>2. /\ {"under_domestic_review", "awaiting_coordination", "under_foreign_review",
          "forwarded_to_foreign_authority"} \subseteq WorkflowStates
      /\ mode \in Modes
  BY DEF WorkflowStates, Modes
<1>3. /\ sequence < MaxAuditSequence /\ sequence + 1 < MaxAuditSequence
      /\ (sequence + 1) + 1 < MaxAuditSequence
      /\ ((sequence + 1) + 1) + 1 = sequence + 3
      /\ sequence + 1 \in Nat /\ (sequence + 1) + 1 \in Nat
      /\ ((sequence + 1) + 1) + 1 \in Nat
  BY CaseContractAssumption DEF RoomForScripts
<1>4. more \in SUBSET ScriptedKeys
  BY <1>1
<1>5. /\ ForwardToCoordinationRule.requiredDocumentTypes = {}
      /\ RecordForeignReviewRule.requiredDocumentTypes = {}
      /\ ForwardToForeignAuthorityRule.requiredDocumentTypes
           = {"coordination_forwarding_package"}
  BY DEF ForwardToCoordinationRule, RecordForeignReviewRule,
     ForwardToForeignAuthorityRule, Rule
<1> HIDE DEF key, more
<1>6. a \in Situation /\ b \in Situation /\ c \in Situation /\ d \in Situation
      /\ e \in Situation
  BY <1>2, <1>3, <1>4, AtTyped
<1>7. Takes(a, Transition(Domestic, ForwardToCoordinationRule, {}), b)
  BY <1>3, <1>5, ScriptTransitions DEF Goes
<1>8. Takes(b, UploadNth(Coordination, "coordination_forwarding_package", n, {}), c)
  BY <1>2, UploadsAllowed, UploadTaken DEF key, more
<1>9. Takes(c, Transition(Coordination, ForwardToForeignAuthorityRule, {key}), d)
  BY <1>1, <1>3, <1>4, <1>5, ScriptTransitions DEF Goes
<1>10. Takes(d, Transition(Foreign, RecordForeignReviewRule, {}), e)
  BY <1>3, <1>4, <1>5, ScriptTransitions DEF Goes
<1> HIDE DEF a, b, c, d, e
<1>11. Leads(a, <<Transition(Domestic, ForwardToCoordinationRule, {}),
                  UploadNth(Coordination, "coordination_forwarding_package", n, {}),
                  Transition(Coordination, ForwardToForeignAuthorityRule, {key}),
                  Transition(Foreign, RecordForeignReviewRule, {})>>, e)
  BY <1>6, <1>7, <1>8, <1>9, <1>10, LeadsFour
<1> QED
  BY <1>3, <1>11 DEF Forwarding, a, e, key, more

\* An officer uploads a document, and a transition that needs it follows.
LEMMA DocumentThenMove ==
  ASSUME RoomForScripts, NEW state \in WorkflowStates, NEW mode \in Modes,
         NEW to \in WorkflowStates, NEW newMode \in Modes,
         NEW sequence \in Nat, sequence + 1 <= 14,
         NEW keys \in SUBSET ScriptedKeys, NEW role, NEW type \in DOCUMENT_TYPES,
         NEW n \in {1, 2}, NEW supersedes, NEW rule,
         Documents!assertDocumentMutationAllowed(OfficerOf(role), type),
         Goes(state, mode, role, rule, to, newMode),
         rule.requiredDocumentTypes \subseteq {type},
         Key(type, n) \notin keys,
         \/ supersedes = {}
         \/ supersedes = {Key(type, 1)} /\ n = 2 /\ Key(type, 1) \in keys
  PROVE  Leads(At(state, mode, sequence, keys),
               <<UploadNth(role, type, n, supersedes),
                 Transition(role, rule, {Key(type, n)})>>,
               At(to, newMode, sequence + 1, keys \cup {Key(type, n)}))
<1> DEFINE key == Key(type, n)
           more == keys \cup {key}
           a == At(state, mode, sequence, keys)
           b == At(state, mode, sequence, more)
           c == At(to, newMode, sequence + 1, more)
<1>1. key \in ScriptedKeys /\ key.type = type
  BY DEF Key, ScriptedKeys
<1>2. sequence < MaxAuditSequence /\ sequence + 1 \in Nat
  BY CaseContractAssumption DEF RoomForScripts
<1>3. more \in SUBSET ScriptedKeys
  BY <1>1
<1> HIDE DEF key, more
<1>4. a \in Situation /\ b \in Situation /\ c \in Situation
  BY <1>2, <1>3, AtTyped
<1>5. Takes(a, UploadNth(role, type, n, supersedes), b)
  BY UploadTaken DEF key, more
<1>6. Takes(b, Transition(role, rule, {key}), c)
  BY <1>1, <1>2, <1>3 DEF Goes
<1> HIDE DEF a, b, c
<1>7. Leads(a, <<UploadNth(role, type, n, supersedes), Transition(role, rule, {key})>>, c)
  BY <1>4, <1>5, <1>6, LeadsTwo
<1> QED
  BY <1>7 DEF a, c, key, more

\* The states and document types that scripts name, and the documents that
\* their rules require.
LEMMA ScriptVocabulary ==
  /\ {"draft", "submitted", "under_domestic_review", "awaiting_coordination",
      "forwarded_to_foreign_authority", "under_foreign_review", "approved", "rejected",
      "issued", "amended", "revoked", "more_information_requested"} \subseteq WorkflowStates
  /\ {"none", "non_substantive", "substantive"} \subseteq Modes
  /\ {"coordination_forwarding_package", "foreign_regulator_response",
      "assurance_instrument", "amendment_request_package", "revocation_notice",
      "request_for_information_notice", "response_to_information_package"}
       \subseteq DOCUMENT_TYPES
  /\ RecordDomesticReviewRule.requiredDocumentTypes = {}
  /\ RejectCaseRule.requiredDocumentTypes = {}
  /\ ApproveCaseRule.requiredDocumentTypes = {"foreign_regulator_response"}
  /\ IssueAssuranceRule.requiredDocumentTypes = {"assurance_instrument"}
  /\ InitiateNonSubstantiveAmendmentRule.requiredDocumentTypes
       = {"amendment_request_package"}
  /\ InitiateSubstantiveAmendmentRule.requiredDocumentTypes
       = {"amendment_request_package"}
  /\ AmendAssuranceRule.requiredDocumentTypes
       = {"amendment_request_package", "assurance_instrument"}
  /\ RevokeAssuranceRule.requiredDocumentTypes = {"revocation_notice"}
  /\ RequestMoreInformationRule.requiredDocumentTypes
       = {"request_for_information_notice"}
  /\ RespondToInformationRequestRule.requiredDocumentTypes
       = {"response_to_information_package"}
BY DEF WorkflowStates, Modes, DOCUMENT_TYPES, Rule, RecordDomesticReviewRule,
   RejectCaseRule, ApproveCaseRule, IssueAssuranceRule,
   InitiateNonSubstantiveAmendmentRule, InitiateSubstantiveAmendmentRule,
   AmendAssuranceRule, RevokeAssuranceRule, RequestMoreInformationRule,
   RespondToInformationRequestRule

\* From the review to the approval.
LEMMA ApprovalLeads ==
  ASSUME RoomForScripts, NEW sequence \in Nat, sequence + 1 <= 14,
         NEW keys \in SUBSET ScriptedKeys,
         Key("foreign_regulator_response", 1) \notin keys
  PROVE  Leads(At("under_foreign_review", "none", sequence, keys), Approval,
               At("approved", "none", sequence + 1,
                  keys \cup {Key("foreign_regulator_response", 1)}))
BY DocumentThenMove, ScriptVocabulary, UploadsAllowed, ScriptTransitions
DEF Approval, Upload

\* From the approval to the issued assurance.
LEMMA IssuanceLeads ==
  ASSUME RoomForScripts, NEW sequence \in Nat, sequence + 1 <= 14,
         NEW keys \in SUBSET ScriptedKeys, Key("assurance_instrument", 1) \notin keys
  PROVE  Leads(At("approved", "none", sequence, keys), Issuance,
               At("issued", "none", sequence + 1,
                  keys \cup {Key("assurance_instrument", 1)}))
BY DocumentThenMove, ScriptVocabulary, UploadsAllowed, ScriptTransitions
DEF Issuance, Upload

\* An amendment of an issued assurance goes to coordination or, if it is
\* substantive, back to review.
LEMMA RequestAmendmentLeads ==
  ASSUME RoomForScripts, NEW sequence \in Nat, sequence + 1 <= 14,
         NEW keys \in SUBSET ScriptedKeys,
         Key("amendment_request_package", 1) \notin keys
  PROVE  LET more == keys \cup {Key("amendment_request_package", 1)}
         IN /\ Leads(At("issued", "none", sequence, keys),
                     RequestAmendment(InitiateNonSubstantiveAmendmentRule),
                     At("awaiting_coordination", "non_substantive", sequence + 1, more))
            /\ Leads(At("issued", "none", sequence, keys),
                     RequestAmendment(InitiateSubstantiveAmendmentRule),
                     At("under_domestic_review", "substantive", sequence + 1, more))
BY DocumentThenMove, ScriptVocabulary, UploadsAllowed, ScriptTransitions
DEF RequestAmendment, Upload

\* An issued assurance is revoked.
LEMMA RevocationLeads ==
  ASSUME RoomForScripts, NEW sequence \in Nat, sequence + 1 <= 14,
         NEW keys \in SUBSET ScriptedKeys, Key("revocation_notice", 1) \notin keys
  PROVE  Leads(At("issued", "none", sequence, keys), Revocation,
               At("revoked", "none", sequence + 1,
                  keys \cup {Key("revocation_notice", 1)}))
BY DocumentThenMove, ScriptVocabulary, UploadsAllowed, ScriptTransitions
DEF Revocation, Upload

\* The renewed review: requested, forwarded again, approved again, and a new
\* version of the instrument.
LEMMA RenewedReviewLeads ==
  ASSUME RoomForScripts, NEW sequence \in Nat, sequence + 5 <= 14,
         NEW keys \in SUBSET ScriptedKeys,
         \A type \in {"amendment_request_package"} : Key(type, 1) \notin keys,
         \A type \in {"coordination_forwarding_package", "foreign_regulator_response",
                      "assurance_instrument"} : Key(type, 2) \notin keys,
         Key("foreign_regulator_response", 1) \in keys,
         Key("assurance_instrument", 1) \in keys
  PROVE  Leads(At("issued", "none", sequence, keys), RenewedReview,
               At("approved", "substantive", sequence + 5,
                  keys \cup {Key("amendment_request_package", 1),
                             Key("coordination_forwarding_package", 2),
                             Key("foreign_regulator_response", 2),
                             Key("assurance_instrument", 2)}))
<1> DEFINE request == Key("amendment_request_package", 1)
           package == Key("coordination_forwarding_package", 2)
           response == Key("foreign_regulator_response", 2)
           instrument == Key("assurance_instrument", 2)
           k1 == keys \cup {request}
           k2 == k1 \cup {package}
           k3 == k2 \cup {response}
           k4 == k3 \cup {instrument}
<1>1. {request, package, response, instrument} \subseteq ScriptedKeys
  BY ScriptVocabulary DEF Key, ScriptedKeys
<1>2. /\ request \notin keys /\ package \notin k1 /\ response \notin k2
      /\ instrument \notin k3
      /\ Key("foreign_regulator_response", 1) \in k2
      /\ Key("assurance_instrument", 1) \in k3
  BY KeysEqual
<1>3. /\ k1 \in SUBSET ScriptedKeys /\ k2 \in SUBSET ScriptedKeys
      /\ k3 \in SUBSET ScriptedKeys /\ k4 \in SUBSET ScriptedKeys
      /\ k4 = keys \cup {request, package, response, instrument}
  BY <1>1
<1>4. /\ sequence + 1 \in Nat /\ (sequence + 1) + 3 = sequence + 4
      /\ sequence + 4 \in Nat /\ (sequence + 4) + 1 = sequence + 5
      /\ sequence + 5 \in Nat /\ sequence + 4 < MaxAuditSequence
  BY CaseContractAssumption DEF RoomForScripts
<1>5. /\ response.type = "foreign_regulator_response"
      /\ response = Key("foreign_regulator_response", 2)
  BY KeysEqual
<1> HIDE DEF k1, k2, k3, k4
<1>6. Leads(At("issued", "none", sequence, keys),
            RequestAmendment(InitiateSubstantiveAmendmentRule),
            At("under_domestic_review", "substantive", sequence + 1, k1))
  BY <1>2, RequestAmendmentLeads DEF k1
<1>7. Leads(At("under_domestic_review", "substantive", sequence + 1, k1), Forwarding(2),
            At("under_foreign_review", "substantive", sequence + 4, k2))
  <2>1. PICK q \in Nat : q = sequence + 1 /\ q + 3 <= 14 /\ q + 3 = sequence + 4
    BY <1>4
  <2>2. Leads(At("under_domestic_review", "substantive", q, k1), Forwarding(2),
              At("under_foreign_review", "substantive", q + 3, k1 \cup {package}))
    BY <1>2, <1>3, <2>1, ForwardingLeads
  <2> QED
    BY <2>1, <2>2 DEF k2
<1> DEFINE a == At("under_foreign_review", "substantive", sequence + 4, k2)
           b == At("under_foreign_review", "substantive", sequence + 4, k3)
           c == At("approved", "substantive", sequence + 5, k3)
           d == At("approved", "substantive", sequence + 5, k4)
<1>8. a \in Situation /\ b \in Situation /\ c \in Situation /\ d \in Situation
  BY <1>3, <1>4, ScriptVocabulary, AtTyped
<1>9. Takes(a, Supersede(Foreign, "foreign_regulator_response"), b)
  BY <1>2, <1>3, UploadTaken, UploadsAllowed, ScriptVocabulary DEF Supersede, k3
<1>10. Takes(b, Transition(Foreign, ApproveCaseRule, {response}), c)
  BY <1>3, <1>4, <1>5, ScriptTransitions, ScriptVocabulary DEF Goes
<1>11. Takes(c, Supersede(Coordination, "assurance_instrument"), d)
  BY <1>2, <1>3, UploadTaken, UploadsAllowed, ScriptVocabulary DEF Supersede, k4
<1> HIDE DEF a, b, c, d
<1>12. Leads(a, <<Supersede(Foreign, "foreign_regulator_response"),
                  Transition(Foreign, ApproveCaseRule, {response}),
                  Supersede(Coordination, "assurance_instrument")>>, d)
  BY <1>8, <1>9, <1>10, <1>11, LeadsThree
<1>13. Leads(At("issued", "none", sequence, keys), RenewedReview, d)
  BY <1>6, <1>7, <1>12, LeadsJoin DEF RenewedReview, a
<1> QED
  BY <1>3, <1>13 DEF d

\* The amendment, of either kind.
LEMMA AmendmentLeads ==
  ASSUME RoomForScripts, NEW sequence \in Nat, sequence + 1 <= 14,
         NEW keys \in SUBSET ScriptedKeys
  PROVE  /\ Leads(At("awaiting_coordination", "non_substantive", sequence, keys),
                  Amendment, At("amended", "none", sequence + 1, keys))
         /\ Leads(At("approved", "substantive", sequence, keys),
                  Amendment, At("amended", "none", sequence + 1, keys))
<1> DEFINE documentKeys == {Key("amendment_request_package", 1),
                            Key("assurance_instrument", 2)}
           call == Transition(Coordination, AmendAssuranceRule, documentKeys)
<1>1. AmendAssuranceRule.requiredDocumentTypes \subseteq {key.type : key \in documentKeys}
  BY ScriptVocabulary, KeysEqual
<1>2. sequence < MaxAuditSequence /\ sequence + 1 \in Nat
  BY CaseContractAssumption DEF RoomForScripts
<1> HIDE DEF documentKeys
<1>3. /\ At("awaiting_coordination", "non_substantive", sequence, keys) \in Situation
      /\ At("approved", "substantive", sequence, keys) \in Situation
      /\ At("amended", "none", sequence + 1, keys) \in Situation
  BY <1>2, ScriptVocabulary, AtTyped
<1>4. /\ Takes(At("awaiting_coordination", "non_substantive", sequence, keys), call,
               At("amended", "none", sequence + 1, keys))
      /\ Takes(At("approved", "substantive", sequence, keys), call,
               At("amended", "none", sequence + 1, keys))
  BY <1>1, <1>2, ScriptTransitions DEF Goes
<1> HIDE DEF call
<1>5. /\ Leads(At("awaiting_coordination", "non_substantive", sequence, keys),
               <<call>>, At("amended", "none", sequence + 1, keys))
      /\ Leads(At("approved", "substantive", sequence, keys),
               <<call>>, At("amended", "none", sequence + 1, keys))
  BY <1>3, <1>4, LeadsOne
<1> QED
  BY <1>5 DEF Amendment, call, documentKeys

\* The new version of the instrument.
LEMMA SupersedeLeads ==
  ASSUME NEW state \in WorkflowStates, NEW mode \in Modes, NEW sequence \in Nat,
         NEW keys \in SUBSET ScriptedKeys, Key("assurance_instrument", 2) \notin keys,
         Key("assurance_instrument", 1) \in keys
  PROVE  Leads(At(state, mode, sequence, keys),
               <<Supersede(Coordination, "assurance_instrument")>>,
               At(state, mode, sequence, keys \cup {Key("assurance_instrument", 2)}))
<1> DEFINE more == keys \cup {Key("assurance_instrument", 2)}
<1>1. more \in SUBSET ScriptedKeys
  BY ScriptVocabulary DEF Key, ScriptedKeys
<1> HIDE DEF more
<1>2. /\ At(state, mode, sequence, keys) \in Situation
      /\ At(state, mode, sequence, more) \in Situation
  BY <1>1, AtTyped
<1>3. Takes(At(state, mode, sequence, keys),
            Supersede(Coordination, "assurance_instrument"),
            At(state, mode, sequence, more))
  BY UploadTaken, UploadsAllowed DEF Supersede, more
<1> QED
  BY <1>2, <1>3, LeadsOne DEF more

\* Waiting for information, with the lane that asked for it remembered.
Waiting(lane, sequence, keys) ==
  [currentState |-> "more_information_requested", currentSubstate |-> lane,
   pendingAmendmentReviewMode |-> "none", auditSequenceNumber |-> sequence,
   keys |-> keys]

\* A reviewer asks for information, and the case remembers who waits for it.
LEMMA InformationRequestLeads ==
  ASSUME RoomForScripts, NEW sequence \in Nat, sequence + 1 <= 14,
         NEW keys \in SUBSET ScriptedKeys, NEW role, NEW lane,
         \/ role = Domestic /\ lane = "under_domestic_review"
         \/ role = Foreign /\ lane = "under_foreign_review",
         Key("request_for_information_notice", 1) \notin keys
  PROVE  LET after == Waiting(lane, sequence + 1,
                        keys \cup {Key("request_for_information_notice", 1)})
         IN /\ after \in Situation
            /\ Leads(At(lane, "none", sequence, keys), InformationRequest(role), after)
<1> DEFINE key == Key("request_for_information_notice", 1)
           more == keys \cup {key}
           a == At(lane, "none", sequence, keys)
           b == At(lane, "none", sequence, more)
           c == Waiting(lane, sequence + 1, more)
<1>1. key \in ScriptedKeys /\ key.type = "request_for_information_notice"
  BY ScriptVocabulary DEF Key, ScriptedKeys
<1>2. sequence < MaxAuditSequence /\ sequence + 1 \in Nat
  BY CaseContractAssumption DEF RoomForScripts
<1>3. more \in SUBSET ScriptedKeys
  BY <1>1
<1> HIDE DEF key, more
<1>4. a \in Situation /\ b \in Situation /\ lane \in WorkflowStates
  BY <1>2, <1>3, ScriptVocabulary, AtTyped
<1>5. c \in Situation
  <2>1. "more_information_requested" \in WorkflowStates
    BY ScriptVocabulary
  <2> QED
    BY <1>2, <1>3, <1>4, <2>1 DEF Waiting, Situation
<1>6. Takes(a, Upload(role, "request_for_information_notice"), b)
  <2>1. Documents!assertDocumentMutationAllowed(OfficerOf(role),
          "request_for_information_notice")
    BY UploadsAllowed
  <2> QED
    BY <1>4, <2>1, UploadTaken DEF Upload, key, more
<1>7. Takes(b, Transition(role, RequestMoreInformationRule, {key}), c)
  <2>1. ActorAllowed(RequestMoreInformationRule, OfficerOf(role))
    BY DEF RequestMoreInformationRule, Rule, ActorAllowed, ActorInGoodStanding,
       OfficerOf, OrganizationOf, AllowedActions, ReviewerRoles, ReviewerOrgs
  <2>2. SituationAllows(b, RequestMoreInformationRule)
    BY DEF SituationAllows, At, RequestMoreInformationRule, Rule, ReviewLanes,
       AmendmentInitiations
  <2>3. SituationAfter(b, RequestMoreInformationRule) = c
    BY DEF SituationAfter, At, Waiting, RequestMoreInformationRule, Rule,
       nextState, nextSubstate, nextReviewMode, ClosesAmendment
  <2>4. RequestMoreInformationRule.requiredDocumentTypes
          \subseteq {k.type : k \in {key}}
    BY <1>1, ScriptVocabulary
  <2> HIDE DEF c
  <2>5. Takes(b, Transition(role, RequestMoreInformationRule, {key}),
              SituationAfter(b, RequestMoreInformationRule))
    BY <1>2, <1>4, <2>1, <2>2, <2>4, TransitionTaken
  <2> QED
    BY <2>3, <2>5
<1> HIDE DEF a, b, c
<1>8. Leads(a, InformationRequest(role), c)
  BY <1>4, <1>5, <1>6, <1>7, LeadsTwo DEF InformationRequest, key
<1> QED
  BY <1>5, <1>8 DEF a, c, more, key

InformationResponse ==
  <<Upload(Applicant, "response_to_information_package"),
    Transition(Applicant, RespondToInformationRequestRule,
               {Key("response_to_information_package", 1)})>>

\* The response takes the case back to the review it was in.
LEMMA InformationResponseLeads ==
  ASSUME RoomForScripts, NEW sequence \in Nat, sequence + 1 <= 14,
         NEW keys \in SUBSET ScriptedKeys,
         NEW lane \in {"under_domestic_review", "under_foreign_review"},
         Key("response_to_information_package", 1) \notin keys,
         Waiting(lane, sequence, keys) \in Situation
  PROVE  Leads(Waiting(lane, sequence, keys), InformationResponse,
               At(lane, "none", sequence + 1,
                  keys \cup {Key("response_to_information_package", 1)}))
<1> DEFINE key == Key("response_to_information_package", 1)
           more == keys \cup {key}
           upload == Upload(Applicant, "response_to_information_package")
           respond == Transition(Applicant, RespondToInformationRequestRule, {key})
           a == Waiting(lane, sequence, keys)
           b == Waiting(lane, sequence, more)
           c == At(lane, "none", sequence + 1, more)
<1>1. key \in ScriptedKeys /\ key.type = "response_to_information_package"
  BY ScriptVocabulary DEF Key, ScriptedKeys
<1>2. sequence < MaxAuditSequence /\ sequence + 1 \in Nat
  BY CaseContractAssumption DEF RoomForScripts
<1>3. more \in SUBSET ScriptedKeys
  BY <1>1
<1>4. /\ upload.call = "upload" /\ upload.role = Applicant /\ upload.key = key
      /\ upload.supersedes = {}
  BY DEF Upload, UploadNth
<1>5. /\ respond.call = "transition" /\ respond.role = Applicant
      /\ respond.rule = RespondToInformationRequestRule /\ respond.keys = {key}
  BY DEF Transition
<1> HIDE DEF key, more
<1>6. /\ a.currentState = "more_information_requested"
      /\ a.currentSubstate = lane /\ a.pendingAmendmentReviewMode = "none"
      /\ a.auditSequenceNumber = sequence /\ a.keys = keys
      /\ b = [a EXCEPT !.keys = @ \cup {key}]
      /\ b.currentState = "more_information_requested"
      /\ b.currentSubstate = lane /\ b.pendingAmendmentReviewMode = "none"
      /\ b.auditSequenceNumber = sequence /\ b.keys = more
  BY DEF Waiting, more
<1>7. a \in Situation /\ b \in Situation /\ c \in Situation
  <2>1. c \in Situation
    BY <1>2, <1>3, ScriptVocabulary, AtTyped
  <2>2. b \in Situation
    BY <1>3, ScriptVocabulary DEF Waiting, At, Situation
  <2> QED
    BY <2>1, <2>2
<1>8. Documents!assertDocumentMutationAllowed(OfficerOf(Applicant), key.type)
  BY <1>1, UploadsAllowed
<1>9. key \notin keys
  BY DEF key
<1> HIDE DEF a, b, upload, respond
<1>10. Takes(a, upload, b)
  BY <1>4, <1>6, <1>8, <1>9 DEF Takes
<1>11. Takes(b, respond, c)
  <2>1. ActorAllowed(RespondToInformationRequestRule, OfficerOf(Applicant))
    BY DEF RespondToInformationRequestRule, Rule, ActorAllowed, ActorInGoodStanding,
       OfficerOf, OrganizationOf, AllowedActions, ApplicantRoles, ApplicantOrgs
  <2>2. SituationAllows(b, RespondToInformationRequestRule)
    BY <1>6 DEF SituationAllows, RespondToInformationRequestRule, Rule, Undefined,
       AmendmentInitiations
  <2>3. SituationAfter(b, RespondToInformationRequestRule) = c
    BY <1>6 DEF SituationAfter, At, RespondToInformationRequestRule, Rule,
       nextState, nextSubstate, nextReviewMode, ClosesAmendment
  <2>4. RespondToInformationRequestRule.requiredDocumentTypes
          \subseteq {k.type : k \in {key}}
    BY <1>1, ScriptVocabulary
  <2> QED
    BY <1>2, <1>5, <1>6, <2>1, <2>2, <2>3, <2>4 DEF Takes
<1> HIDE DEF c
<1>12. Leads(a, <<upload, respond>>, c)
  BY <1>7, <1>10, <1>11, LeadsTwo
<1> QED
  BY <1>12 DEF InformationResponse, a, c, upload, respond, key, more

-----------------------------------------------------------------------------
(* The baselines, from the creation of the case on. *)

\* The documents of a submission, which the rest of a script adds others to.
SubmissionTypes ==
  {"assurance_application_form", "item_technical_specification",
   "end_use_declaration", "supporting_correspondence",
   "transport_authorization", "package_design_certificate"}

SubmissionLists ==
  {types \in Seq(SubmissionTypes) :
     \A i, j \in DOMAIN types : types[i] = types[j] => i = j}

\* A draft is created and each document uploaded once.
LEMMA CreationLeads ==
  ASSUME NEW types \in SubmissionLists
  PROVE  Leads(Absent, createDraftWithDocuments(types),
               At("draft", "none", 1, KeysOf(types)))
<1> DEFINE n == Len(types)
           uploaded(i) == {Key(types[j], 1) : j \in 1 .. i}
           s == createDraftWithDocuments(types)
           trace == [i \in 0 .. n + 1 |->
                       IF i = 0 THEN Absent
                       ELSE At("draft", "none", 1, uploaded(i - 1))]
           U == {Upload(Applicant, types[i]) : i \in 1 .. n}
<1>1. /\ types \in Seq(SubmissionTypes) /\ n \in Nat /\ DOMAIN types = 1 .. n
      /\ \A i \in 1 .. n : types[i] \in SubmissionTypes
      /\ \A i, j \in 1 .. n : types[i] = types[j] => i = j
  BY DEF SubmissionLists
<1>2. SubmissionTypes \subseteq DOCUMENT_TYPES
  BY DEF SubmissionTypes, DOCUMENT_TYPES
<1>3. \A i \in 0 .. n : uploaded(i) \in SUBSET ScriptedKeys
  BY <1>1, <1>2 DEF Key, ScriptedKeys
<1>4. "draft" \in WorkflowStates /\ "none" \in Modes
  BY ScriptVocabulary
<1>5. Absent \in Situation
  BY AtTyped, <1>4 DEF Absent
<1>6. /\ s \in Seq({CreateDraft} \cup U)
      /\ Len(s) = n + 1 /\ s[1] = CreateDraft
      /\ \A i \in 2 .. n + 1 : s[i] = Upload(Applicant, types[i - 1])
  <2> DEFINE t == [i \in DOMAIN types |-> Upload(Applicant, types[i])]
  <2>1. t \in Seq(U) /\ Len(t) = n
    BY <1>1
  <2>2. \A i \in 1 .. n : t[i] = Upload(Applicant, types[i])
    BY <1>1
  <2>3. s = <<CreateDraft>> \o t
    BY DEF createDraftWithDocuments
  <2> HIDE DEF t, U, s
  <2>4. t \in Seq({CreateDraft} \cup U)
    BY <2>1
  <2> QED
    BY <1>1, <2>1, <2>2, <2>3, <2>4
<1> HIDE DEF s, U
<1>7. ASSUME NEW i \in 1 .. n
      PROVE  uploaded(i) = uploaded(i - 1) \cup {Key(types[i], 1)}
  <2>1. 1 .. i = (1 .. i - 1) \cup {i}
    BY <1>1
  <2> QED
    BY <2>1
<1>8. ASSUME NEW i \in 1 .. n
      PROVE  Key(types[i], 1) \notin uploaded(i - 1)
  BY <1>1, KeysEqual
<1>9. uploaded(0) = {} /\ uploaded(n) = KeysOf(types)
  BY <1>1 DEF KeysOf
<1> HIDE DEF uploaded
<1>10. \A i \in 0 .. n : At("draft", "none", 1, uploaded(i)) \in Situation
  BY <1>3, <1>4, AtTyped
<1>11. /\ trace \in [0 .. n + 1 -> Situation]
       /\ trace[0] = Absent
       /\ \A i \in 1 .. n + 1 : trace[i] = At("draft", "none", 1, uploaded(i - 1))
  <2>1. \A i \in 0 .. n + 1 : i # 0 => i - 1 \in 0 .. n
    BY <1>1
  <2> QED
    BY <1>1, <1>5, <1>10, <2>1
<1> HIDE DEF trace
<1>12. ASSUME NEW i \in 1 .. n + 1
       PROVE  Takes(trace[i - 1], s[i], trace[i])
  <2>1. CASE i = 1
    <3>1. i - 1 = 0 /\ trace[i] = At("draft", "none", 1, uploaded(i - 1))
      BY <1>11, <2>1
    <3>2. uploaded(i - 1) = {}
      BY <1>9, <3>1
    <3>3. trace[i - 1] = Absent /\ trace[i] = Drafted /\ s[i] = CreateDraft
      BY <1>6, <1>11, <2>1, <3>1, <3>2 DEF Drafted
    <3> QED
      BY <3>3 DEF Takes, CreateDraft
  <2>2. CASE i > 1
    <3> DEFINE j == i - 1
    <3>1. j \in 1 .. n /\ i \in 2 .. n + 1 /\ j \in 1 .. n + 1
          /\ j - 1 \in 0 .. n
      BY <1>1, <2>2
    <3>2. /\ trace[i - 1] = At("draft", "none", 1, uploaded(j - 1))
          /\ trace[i] = At("draft", "none", 1, uploaded(j))
          /\ s[i] = Upload(Applicant, types[j])
      BY <1>6, <1>11, <3>1
    <3> HIDE DEF j
    <3>3. Documents!assertDocumentMutationAllowed(OfficerOf(Applicant), types[j])
      BY <1>1, <3>1, UploadsAllowed DEF SubmissionTypes
    <3>4. /\ uploaded(j) = uploaded(j - 1) \cup {Key(types[j], 1)}
          /\ Key(types[j], 1) \notin uploaded(j - 1)
          /\ uploaded(j - 1) \in SUBSET ScriptedKeys
      BY <1>3, <1>7, <1>8, <3>1
    <3> QED
      BY <1>4, <3>2, <3>3, <3>4, UploadTaken DEF Upload
  <2> QED
    BY <1>1, <2>1, <2>2
<1>13. trace[n + 1] = At("draft", "none", 1, KeysOf(types))
  <2>1. n + 1 \in 1 .. n + 1 /\ (n + 1) - 1 = n
    BY <1>1
  <2> QED
    BY <1>9, <1>11, <2>1
<1> HIDE DEF n
<1>14. Leads(Absent, s, At("draft", "none", 1, KeysOf(types)))
  BY <1>6, <1>11, <1>12, <1>13 DEF Leads
<1> QED
  BY <1>14 DEF s

\* The lists from which a case can be submitted.
CompleteLists ==
  {types \in SubmissionLists :
     SubmitCaseRule.requiredDocumentTypes \subseteq {types[i] : i \in DOMAIN types}}

\* A document that is not of a submission is new to a draft.
LEMMA SubmissionKeys ==
  ASSUME NEW types \in SubmissionLists
  PROVE  /\ KeysOf(types) \in SUBSET ScriptedKeys
         /\ \A type, n : type \notin SubmissionTypes \/ n # 1
                           => Key(type, n) \notin KeysOf(types)
<1>1. /\ \A i \in DOMAIN types : types[i] \in SubmissionTypes
      /\ SubmissionTypes \subseteq DOCUMENT_TYPES
  BY DEF SubmissionLists, SubmissionTypes, DOCUMENT_TYPES
<1>2. KeysOf(types) \in SUBSET ScriptedKeys
  BY <1>1 DEF KeysOf, Key, ScriptedKeys
<1>3. \A type, n : Key(type, n) \in KeysOf(types) => type \in SubmissionTypes /\ n = 1
  BY <1>1, KeysEqual DEF KeysOf
<1> QED
  BY <1>2, <1>3

\* The first baseline: a submitted case (buildSubmittedBaseline).
LEMMA SubmittedLeads ==
  ASSUME RoomForScripts, NEW types \in CompleteLists
  PROVE  Leads(Absent, buildSubmittedBaseline(types),
               At("submitted", "none", 2, KeysOf(types)))
<1> DEFINE keys == KeysOf(types)
           call == Transition(Applicant, SubmitCaseRule, keys)
           a == At("draft", "none", 1, keys)
           b == At("submitted", "none", 2, keys)
<1>1. types \in SubmissionLists
  BY DEF CompleteLists
<1>2. SubmitCaseRule.requiredDocumentTypes \subseteq {key.type : key \in keys}
  <2>1. \A i \in DOMAIN types : Key(types[i], 1) \in keys /\ Key(types[i], 1).type = types[i]
    BY KeysEqual DEF KeysOf
  <2> HIDE DEF keys
  <2>2. {types[i] : i \in DOMAIN types} \subseteq {key.type : key \in keys}
    BY <2>1
  <2> QED
    BY <2>2 DEF CompleteLists
<1>3. keys \in SUBSET ScriptedKeys
  BY <1>1, SubmissionKeys
<1> HIDE DEF keys
<1>4. a \in Situation /\ b \in Situation
  BY <1>3, AtTyped, ScriptVocabulary
<1>5. 1 < MaxAuditSequence /\ 1 + 1 = 2
  BY CaseContractAssumption DEF RoomForScripts
<1>6. Takes(a, call, b)
  BY <1>2, <1>3, <1>5, ScriptTransitions DEF Goes
<1> HIDE DEF a, b, call
<1>7. Leads(a, <<call>>, b)
  BY <1>4, <1>6, LeadsOne
<1>8. Leads(Absent, createDraftWithDocuments(types), a)
  BY <1>1, CreationLeads DEF a, keys
<1>9. Leads(Absent, createDraftWithDocuments(types) \o <<call>>, b)
  BY <1>7, <1>8, LeadsJoin
<1> QED
  BY <1>9 DEF b, keys, call, buildSubmittedBaseline

\* A single transition without documents.
LEMMA MoveLeads ==
  ASSUME RoomForScripts, NEW state \in WorkflowStates, NEW mode \in Modes,
         NEW role, NEW rule, NEW to \in WorkflowStates, NEW newMode \in Modes,
         Goes(state, mode, role, rule, to, newMode),
         rule.requiredDocumentTypes = {},
         NEW sequence \in Nat, sequence + 1 <= 14, NEW keys \in SUBSET ScriptedKeys
  PROVE  Leads(At(state, mode, sequence, keys), <<Transition(role, rule, {})>>,
               At(to, newMode, sequence + 1, keys))
<1> DEFINE a == At(state, mode, sequence, keys)
           b == At(to, newMode, sequence + 1, keys)
<1>1. sequence < MaxAuditSequence /\ sequence + 1 \in Nat
  BY CaseContractAssumption DEF RoomForScripts
<1>2. a \in Situation /\ b \in Situation
  BY <1>1, AtTyped
<1>3. Takes(a, Transition(role, rule, {}), b)
  BY <1>1 DEF Goes
<1> QED
  BY <1>2, <1>3, LeadsOne

\* The second: a case under domestic review.
LEMMA UnderDomesticReviewLeads ==
  ASSUME RoomForScripts, NEW types \in CompleteLists
  PROVE  Leads(Absent, buildUnderDomesticReviewBaseline(types),
               At("under_domestic_review", "none", 3, KeysOf(types)))
<1> DEFINE a == At("submitted", "none", 2, KeysOf(types))
           b == At("under_domestic_review", "none", 3, KeysOf(types))
<1>1. KeysOf(types) \in SUBSET ScriptedKeys
  BY SubmissionKeys DEF CompleteLists
<1>2. 2 \in Nat /\ 2 + 1 = 3 /\ 2 + 1 <= 14
  OBVIOUS
<1>3. Leads(a, <<Transition(Domestic, RecordDomesticReviewRule, {})>>, b)
  BY <1>1, <1>2, MoveLeads, ScriptTransitions, ScriptVocabulary
<1> HIDE DEF b
<1>4. Leads(Absent, buildSubmittedBaseline(types), a)
  BY SubmittedLeads
<1> HIDE DEF a
<1>5. Leads(Absent, buildSubmittedBaseline(types)
                      \o <<Transition(Domestic, RecordDomesticReviewRule, {})>>, b)
  BY <1>3, <1>4, LeadsJoin
<1> QED
  BY <1>5 DEF b, buildUnderDomesticReviewBaseline

\* Reviewed abroad, approved and issued: the keys that are added on the way.
ForeignKeys(types)  == KeysOf(types) \cup {Key("coordination_forwarding_package", 1)}
ApprovedKeys(types) == ForeignKeys(types) \cup {Key("foreign_regulator_response", 1)}
IssuedKeys(types)   == ApprovedKeys(types) \cup {Key("assurance_instrument", 1)}

\* The documents that a case has after each of the later baselines.
LEMMA BaselineKeys ==
  ASSUME NEW types \in CompleteLists
  PROVE  /\ ForeignKeys(types) \in SUBSET ScriptedKeys
         /\ ApprovedKeys(types) \in SUBSET ScriptedKeys
         /\ IssuedKeys(types) \in SUBSET ScriptedKeys
         /\ Key("foreign_regulator_response", 1) \in IssuedKeys(types)
         /\ Key("assurance_instrument", 1) \in IssuedKeys(types)
         /\ \A type, n :
              type \notin SubmissionTypes \cup {"coordination_forwarding_package",
                            "foreign_regulator_response", "assurance_instrument"}
              \/ n = 2
              => Key(type, n) \notin IssuedKeys(types)
         /\ Key("foreign_regulator_response", 1) \notin ForeignKeys(types)
         /\ Key("assurance_instrument", 1) \notin ApprovedKeys(types)
         /\ Key("coordination_forwarding_package", 1) \notin KeysOf(types)
<1> DEFINE forward == Key("coordination_forwarding_package", 1)
           response == Key("foreign_regulator_response", 1)
           instrument == Key("assurance_instrument", 1)
<1>1. types \in SubmissionLists
  BY DEF CompleteLists
<1>2. /\ KeysOf(types) \in SUBSET ScriptedKeys
      /\ \A type, n : type \notin SubmissionTypes \/ n # 1
                        => Key(type, n) \notin KeysOf(types)
  BY <1>1, SubmissionKeys
<1>3. {forward, response, instrument} \subseteq ScriptedKeys
  BY DEF Key, ScriptedKeys, DOCUMENT_TYPES
<1>4. {"coordination_forwarding_package", "foreign_regulator_response",
       "assurance_instrument"} \cap SubmissionTypes = {}
  BY DEF SubmissionTypes
<1> QED
  BY <1>2, <1>3, <1>4, KeysEqual DEF ForeignKeys, ApprovedKeys, IssuedKeys

\* The third: a case under foreign review.
LEMMA UnderForeignReviewLeads ==
  ASSUME RoomForScripts, NEW types \in CompleteLists
  PROVE  Leads(Absent, buildUnderForeignReviewBaseline(types),
               At("under_foreign_review", "none", 6, ForeignKeys(types)))
<1> DEFINE a == At("under_domestic_review", "none", 3, KeysOf(types))
           b == At("under_foreign_review", "none", 6, ForeignKeys(types))
<1>1. KeysOf(types) \in SUBSET ScriptedKeys
  BY SubmissionKeys DEF CompleteLists
<1>2. 3 \in Nat /\ 3 + 3 = 6 /\ 3 + 3 <= 14
  OBVIOUS
<1>3. Leads(a, Forwarding(1), b)
  BY <1>1, <1>2, ForwardingLeads, BaselineKeys DEF ForeignKeys
<1> HIDE DEF b
<1>4. Leads(Absent, buildUnderDomesticReviewBaseline(types), a)
  BY UnderDomesticReviewLeads
<1> HIDE DEF a
<1>5. Leads(Absent, buildUnderDomesticReviewBaseline(types) \o Forwarding(1), b)
  BY <1>3, <1>4, LeadsJoin
<1> QED
  BY <1>5 DEF b, buildUnderForeignReviewBaseline

\* The fourth: an approved and then issued case (buildIssuedBaseline).
LEMMA IssuedLeads ==
  ASSUME RoomForScripts, NEW types \in CompleteLists
  PROVE  /\ Leads(Absent, buildUnderForeignReviewBaseline(types) \o Approval,
                  At("approved", "none", 7, ApprovedKeys(types)))
         /\ Leads(Absent, buildIssuedBaseline(types),
                  At("issued", "none", 8, IssuedKeys(types)))
<1> DEFINE a == At("under_foreign_review", "none", 6, ForeignKeys(types))
           b == At("approved", "none", 7, ApprovedKeys(types))
           c == At("issued", "none", 8, IssuedKeys(types))
           s == buildUnderForeignReviewBaseline(types)
<1>1. 6 \in Nat /\ 6 + 1 = 7 /\ 6 + 1 <= 14 /\ 7 \in Nat /\ 7 + 1 = 8 /\ 7 + 1 <= 14
  OBVIOUS
<1>2. Leads(a, Approval, b)
  BY <1>1, ApprovalLeads, BaselineKeys DEF ApprovedKeys
<1>3. Leads(b, Issuance, c)
  BY <1>1, IssuanceLeads, BaselineKeys DEF IssuedKeys
<1> HIDE DEF b, c
<1>4. Leads(Absent, s, a)
  BY UnderForeignReviewLeads
<1> HIDE DEF a, s
<1>5. Leads(Absent, s \o Approval, b)
  BY <1>2, <1>4, LeadsJoin
<1>6. Leads(Absent, (s \o Approval) \o Issuance, c)
  BY <1>3, <1>5, LeadsJoin
<1> QED
  BY <1>5, <1>6 DEF b, c, s, buildIssuedBaseline

\* The elements of two sequences joined.
LEMMA JoinedElements ==
  ASSUME NEW S, NEW s \in Seq(S), NEW t \in Seq(S)
  PROVE  \A i \in 1 .. Len(s) + Len(t) :
           (s \o t)[i] = IF i <= Len(s) THEN s[i] ELSE t[i - Len(s)]
OBVIOUS

\* The lists of the scripts name each document once.
LEMMA ListsComplete ==
  /\ MINIMAL_SUBMISSION_DOCUMENT_TYPES \in CompleteLists
  /\ FULL_SUBMISSION_DOCUMENT_TYPES \in CompleteLists
  /\ ScreenshotDocumentTypes \in CompleteLists
  /\ LET two == SubSeq(MINIMAL_SUBMISSION_DOCUMENT_TYPES, 1, 2)
     IN /\ two \in SubmissionLists
        /\ DOMAIN two = {1, 2}
        /\ two[1] = "assurance_application_form"
        /\ two[2] = "item_technical_specification"
<1> DEFINE Minimal == MINIMAL_SUBMISSION_DOCUMENT_TYPES
           Full == FULL_SUBMISSION_DOCUMENT_TYPES
           Screenshot == ScreenshotDocumentTypes
           Two == SubSeq(MINIMAL_SUBMISSION_DOCUMENT_TYPES, 1, 2)
           Begins(types) == /\ types[1] = "assurance_application_form"
                            /\ types[2] = "item_technical_specification"
                            /\ types[3] = "end_use_declaration"
<1>1. /\ Minimal \in Seq(SubmissionTypes) /\ Len(Minimal) = 3
      /\ Full \in Seq(SubmissionTypes) /\ Len(Full) = 6
      /\ Screenshot \in Seq(SubmissionTypes) /\ Len(Screenshot) = 4
      /\ Two \in Seq(SubmissionTypes) /\ Len(Two) = 2
  BY DEF MINIMAL_SUBMISSION_DOCUMENT_TYPES, FULL_SUBMISSION_DOCUMENT_TYPES,
     ScreenshotDocumentTypes, SubmissionTypes
<1>2. Begins(Minimal)
  BY DEF MINIMAL_SUBMISSION_DOCUMENT_TYPES
<1>3. /\ Begins(Full) /\ Full[4] = "supporting_correspondence"
      /\ Full[5] = "transport_authorization" /\ Full[6] = "package_design_certificate"
  <2> DEFINE rest == <<"supporting_correspondence", "transport_authorization",
                       "package_design_certificate">>
  <2>1. /\ \A i \in 1 .. 3 : Full[i] = Minimal[i]
        /\ \A i \in 4 .. 6 : Full[i] = rest[i - 3]
    <3>1. Full = Minimal \o rest /\ Len(rest) = 3 /\ rest \in Seq(SubmissionTypes)
      BY DEF FULL_SUBMISSION_DOCUMENT_TYPES, SubmissionTypes
    <3> HIDE DEF rest, Minimal, Full
    <3> QED
      BY <1>1, <3>1
  <2>2. Full[1] = Minimal[1] /\ Full[2] = Minimal[2] /\ Full[3] = Minimal[3]
    BY <2>1
  <2>3. Full[4] = rest[1] /\ Full[5] = rest[2] /\ Full[6] = rest[3]
    BY <2>1
  <2> HIDE DEF Full, Minimal
  <2> QED
    BY <1>2, <2>2, <2>3
<1>4. Begins(Screenshot) /\ Screenshot[4] = "supporting_correspondence"
  <2> DEFINE rest == <<"supporting_correspondence">>
  <2>1. /\ \A i \in 1 .. 3 : Screenshot[i] = Minimal[i]
        /\ Screenshot[4] = rest[1]
    <3>1. /\ Screenshot = Minimal \o rest /\ Len(rest) = 1
          /\ rest \in Seq(SubmissionTypes)
      BY DEF ScreenshotDocumentTypes, SubmissionTypes
    <3> HIDE DEF rest, Minimal, Screenshot
    <3>2. \A i \in 1 .. Len(Minimal) + Len(rest) :
            Screenshot[i] = IF i <= Len(Minimal) THEN Minimal[i]
                            ELSE rest[i - Len(Minimal)]
      BY <1>1, <3>1, JoinedElements
    <3>3. \A i \in 1 .. 3 : i \in 1 .. Len(Minimal) + Len(rest) /\ i <= Len(Minimal)
      BY <1>1, <3>1
    <3>4. 4 \in 1 .. Len(Minimal) + Len(rest) /\ ~(4 <= Len(Minimal))
          /\ 4 - Len(Minimal) = 1
      BY <1>1, <3>1
    <3>5. Screenshot[4] = rest[1]
      BY <3>2, <3>4
    <3>6. \A i \in 1 .. 3 : Screenshot[i] = Minimal[i]
      BY <3>2, <3>3
    <3> QED
      BY <3>5, <3>6
  <2>2. /\ Screenshot[1] = Minimal[1] /\ Screenshot[2] = Minimal[2]
        /\ Screenshot[3] = Minimal[3] /\ Screenshot[4] = rest[1]
    BY <2>1
  <2> HIDE DEF Screenshot, Minimal
  <2> QED
    BY <1>2, <2>2
<1>5. /\ Two[1] = "assurance_application_form"
      /\ Two[2] = "item_technical_specification"
  <2>1. \A i \in 1 .. 2 : Two[i] = Minimal[i]
    BY DEF MINIMAL_SUBMISSION_DOCUMENT_TYPES
  <2>2. Two[1] = Minimal[1] /\ Two[2] = Minimal[2]
    BY <2>1
  <2> HIDE DEF Two, Minimal
  <2> QED
    BY <1>2, <2>2
<1> HIDE DEF Minimal, Full, Screenshot, Two
<1>6. /\ DOMAIN Minimal = {1, 2, 3} /\ DOMAIN Full = {1, 2, 3, 4, 5, 6}
      /\ DOMAIN Screenshot = {1, 2, 3, 4} /\ DOMAIN Two = {1, 2}
  BY <1>1
<1>7. Minimal \in SubmissionLists
  BY <1>1, <1>2, <1>6 DEF SubmissionLists
<1>8. Full \in SubmissionLists
  BY <1>1, <1>3, <1>6 DEF SubmissionLists
<1>9. Screenshot \in SubmissionLists
  BY <1>1, <1>4, <1>6 DEF SubmissionLists
<1>10. Two \in SubmissionLists
  BY <1>1, <1>5, <1>6 DEF SubmissionLists
<1>11. SubmitCaseRule.requiredDocumentTypes
         = {"assurance_application_form", "item_technical_specification",
            "end_use_declaration"}
  BY DEF SubmitCaseRule, Rule
<1>12. ASSUME NEW types, Begins(types), {1, 2, 3} \subseteq DOMAIN types
       PROVE  SubmitCaseRule.requiredDocumentTypes \subseteq {types[i] : i \in DOMAIN types}
  BY <1>11, <1>12
<1>13. Minimal \in CompleteLists /\ Full \in CompleteLists
       /\ Screenshot \in CompleteLists
  BY <1>2, <1>3, <1>4, <1>6, <1>7, <1>8, <1>9, <1>12 DEF CompleteLists
<1> QED
  BY <1>5, <1>6, <1>10, <1>13 DEF Minimal, Full, Screenshot, Two

-----------------------------------------------------------------------------
(* The whole scripts. *)

\* A script leads from a situation to a situation.
LEMMA LeadsTyped ==
  ASSUME NEW a, NEW s, NEW b, Leads(a, s, b)
  PROVE  a \in Situation /\ b \in Situation
<1>1. PICK S : s \in Seq(S)
  BY DEF Leads
<1>2. Len(s) \in Nat
  BY <1>1
<1>3. PICK f \in [0 .. Len(s) -> Situation] : f[0] = a /\ f[Len(s)] = b
  BY DEF Leads
<1> QED
  BY <1>2, <1>3

\* Reading the result of a scenario changes nothing.
LEMMA FinalizeLeads ==
  ASSUME NEW a \in Situation, a.currentState # "absent"
  PROVE  Leads(a, Finalize, a) /\ Leads(a, FinalizeBlocked, a)
<1>1. \A override : Takes(a, [call |-> "finalize", override |-> override], a)
  BY DEF Takes
<1> QED
  BY <1>1, LeadsOne DEF Finalize, FinalizeBlocked

\* An attempt that is refused changes nothing.
LEMMA AttemptLeads ==
  ASSUME NEW a \in Situation, NEW role, NEW rule, NEW keys, NEW reason,
         a.currentState # "absent",
         Refuses(a, Attempt(role, rule, keys, reason))
  PROVE  Leads(a, <<Attempt(role, rule, keys, reason)>>, a)
<1>1. Takes(a, Attempt(role, rule, keys, reason), a)
  BY DEF Takes, Attempt
<1> HIDE DEF Attempt
<1> QED
  BY <1>1, LeadsOne

\* What the result of a script tells, by its last call and the situation it
\* ends in.
Outcome(call, b) ==
  IF call.call = "finalize" /\ call.override # Undefined THEN call.override
  ELSE b.currentState

Concludes(s, verdict) ==
  \E b \in Situation :
    Leads(Absent, s, b) /\ verdict = Outcome(s[Len(s)], b)

\* What the last part of a script ends in, the script concludes with.
LEMMA Concluded ==
  ASSUME NEW s, NEW a, NEW t, NEW b, t # <<>>,
         Leads(Absent, s, a), Leads(a, t, b)
  PROVE  Concludes(s \o t, Outcome(t[Len(t)], b))
<1>1. PICK S : s \in Seq(S) /\ t \in Seq(S)
  <2>1. PICK A, B : s \in Seq(A) /\ t \in Seq(B)
    BY DEF Leads
  <2>2. s \in Seq(A \cup B) /\ t \in Seq(A \cup B)
    BY <2>1
  <2> QED
    BY <2>2
<1>2. (s \o t)[Len(s \o t)] = t[Len(t)]
  <2>1. /\ Len(s) \in Nat /\ Len(t) \in Nat /\ Len(t) >= 1
        /\ Len(s \o t) = Len(s) + Len(t)
        /\ \A i \in Len(s) + 1 .. Len(s) + Len(t) : (s \o t)[i] = t[i - Len(s)]
    BY <1>1
  <2>2. Len(s) + Len(t) \in Len(s) + 1 .. Len(s) + Len(t)
        /\ (Len(s) + Len(t)) - Len(s) = Len(t)
    BY <2>1
  <2> QED
    BY <2>1, <2>2
<1>3. Leads(Absent, s \o t, b) /\ b \in Situation
  BY LeadsJoin, LeadsTyped
<1> QED
  BY <1>2, <1>3 DEF Concludes

\* A script ends with a reading of the state, or with a blocked attempt.
LEMMA Finalized ==
  ASSUME NEW s, NEW a, Leads(Absent, s, a), a.currentState # "absent"
  PROVE  /\ Concludes(s \o Finalize, a.currentState)
         /\ Concludes(s \o FinalizeBlocked, "blocked")
<1>1. Leads(a, Finalize, a) /\ Leads(a, FinalizeBlocked, a)
  BY LeadsTyped, FinalizeLeads
<1>2. /\ Finalize # <<>> /\ FinalizeBlocked # <<>>
      /\ Outcome(Finalize[Len(Finalize)], a) = a.currentState
      /\ Outcome(FinalizeBlocked[Len(FinalizeBlocked)], a) = "blocked"
  BY DEF Finalize, FinalizeBlocked, Outcome, Undefined
<1> QED
  BY <1>1, <1>2, Concluded

\* Every scenario ends in the state that the catalogue announces.
LEMMA ScenariosConclude ==
  ASSUME RoomForScripts
  PROVE  \A i \in 1 .. 9 :
           Concludes(EVALUATION_SCENARIOS[i].script, expectedTerminalState[i])
<1> DEFINE Minimal == MINIMAL_SUBMISSION_DOCUMENT_TYPES
           Full == FULL_SUBMISSION_DOCUMENT_TYPES
           Two == SubSeq(MINIMAL_SUBMISSION_DOCUMENT_TYPES, 1, 2)
           request == Key("amendment_request_package", 1)
           second == Key("assurance_instrument", 2)
           reissued == IssuedKeys(Full) \cup {request}
<1>1. Minimal \in CompleteLists /\ Full \in CompleteLists /\ Two \in SubmissionLists
  BY ListsComplete
<1>2. \A state, mode, sequence, keys : At(state, mode, sequence, keys).currentState = state
  BY DEF At
<1>3. Leads(Absent, buildIssuedBaseline(Full), At("issued", "none", 8, IssuedKeys(Full)))
  BY <1>1, IssuedLeads
<1>4. /\ IssuedKeys(Full) \in SUBSET ScriptedKeys
      /\ \A type, n :
              type \notin SubmissionTypes \cup {"coordination_forwarding_package",
                            "foreign_regulator_response", "assurance_instrument"}
              \/ n = 2
              => Key(type, n) \notin IssuedKeys(Full)
      /\ Key("foreign_regulator_response", 1) \in IssuedKeys(Full)
      /\ Key("assurance_instrument", 1) \in IssuedKeys(Full)
  BY <1>1, BaselineKeys
<1>5. {"amendment_request_package", "revocation_notice",
       "request_for_information_notice", "response_to_information_package"}
        \cap (SubmissionTypes \cup {"coordination_forwarding_package",
                "foreign_regulator_response", "assurance_instrument"}) = {}
  BY DEF SubmissionTypes
<1>6. /\ request \in ScriptedKeys /\ request \notin IssuedKeys(Full)
      /\ second \in ScriptedKeys /\ second \notin IssuedKeys(Full)
      /\ second # request
  BY <1>4, <1>5, ScriptVocabulary, KeysEqual DEF Key, ScriptedKeys
<1> HIDE DEF Minimal, Full, Two
<1>7. Concludes(runNormalApprovalScenario, "issued")
  BY <1>2, <1>3, Finalized DEF runNormalApprovalScenario, Full
<1>8. Concludes(runRevocationScenario, "revoked")
  <2> DEFINE a == At("issued", "none", 8, IssuedKeys(Full))
             b == At("revoked", "none", 8 + 1,
                     IssuedKeys(Full) \cup {Key("revocation_notice", 1)})
  <2>1. 8 \in Nat /\ 8 + 1 <= 14 /\ Key("revocation_notice", 1) \notin IssuedKeys(Full)
    BY <1>4, <1>5
  <2>2. Leads(a, Revocation, b)
    BY <1>4, <2>1, RevocationLeads
  <2>3. b.currentState = "revoked"
    BY <1>2
  <2> HIDE DEF b
  <2>4. Leads(Absent, buildIssuedBaseline(Full) \o Revocation, b)
    BY <1>3, <2>2, LeadsJoin
  <2> QED
    BY <2>3, <2>4, Finalized DEF runRevocationScenario, Full
<1>9. Concludes(runRejectionScenario, "rejected")
  <2> DEFINE s == buildUnderDomesticReviewBaseline(Minimal)
             a == At("under_domestic_review", "none", 3, KeysOf(Minimal))
             b == At("rejected", "none", 3 + 1, KeysOf(Minimal))
  <2>1. KeysOf(Minimal) \in SUBSET ScriptedKeys /\ 3 \in Nat /\ 3 + 1 <= 14
    BY <1>1, SubmissionKeys DEF CompleteLists
  <2>2. Leads(a, <<Transition(Domestic, RejectCaseRule, {})>>, b)
    BY <2>1, MoveLeads, ScriptTransitions, ScriptVocabulary
  <2>3. Leads(Absent, s, a)
    BY <1>1, UnderDomesticReviewLeads
  <2>4. b.currentState = "rejected"
    BY <1>2
  <2> HIDE DEF a, b, s
  <2>5. Leads(Absent, s \o <<Transition(Domestic, RejectCaseRule, {})>>, b)
    BY <2>2, <2>3, LeadsJoin
  <2> QED
    BY <2>4, <2>5, Finalized DEF runRejectionScenario, s, Minimal
<1>10. Concludes(runSubstantiveAmendmentScenario, "amended")
  <2> DEFINE a == At("issued", "none", 8, IssuedKeys(Full))
             renewed == IssuedKeys(Full) \cup {request,
                          Key("coordination_forwarding_package", 2),
                          Key("foreign_regulator_response", 2), second}
             b == At("approved", "substantive", 8 + 5, renewed)
             c == At("amended", "none", (8 + 5) + 1, renewed)
  <2>1. /\ 8 \in Nat /\ 8 + 5 <= 14 /\ 8 + 5 \in Nat /\ (8 + 5) + 1 <= 14
        /\ \A type, n :
             type \in {"amendment_request_package"} \/ n = 2
               => Key(type, n) \notin IssuedKeys(Full)
    BY <1>4, <1>5
  <2>2. Leads(a, RenewedReview, b)
    BY <1>4, <2>1, RenewedReviewLeads
  <2>3. renewed \in SUBSET ScriptedKeys
    BY <1>4, <1>6, ScriptVocabulary DEF Key, ScriptedKeys
  <2>4. Leads(b, Amendment, c)
    BY <2>1, <2>3, AmendmentLeads
  <2>5. c.currentState = "amended"
    BY <1>2
  <2> HIDE DEF b, c
  <2>6. Leads(Absent, buildIssuedBaseline(Full) \o RenewedReview, b)
    BY <1>3, <2>2, LeadsJoin
  <2>7. Leads(Absent, (buildIssuedBaseline(Full) \o RenewedReview) \o Amendment, c)
    BY <2>4, <2>6, LeadsJoin
  <2> QED
    BY <2>5, <2>7, Finalized DEF runSubstantiveAmendmentScenario, Full
<1>11. Concludes(runNonSubstantiveAmendmentScenario, "amended")
  <2> DEFINE a == At("issued", "none", 8, IssuedKeys(Full))
             b == At("awaiting_coordination", "non_substantive", 8 + 1, reissued)
             more == reissued \cup {second}
             c == At("awaiting_coordination", "non_substantive", 8 + 1, more)
             d == At("amended", "none", (8 + 1) + 1, more)
             supersede == <<Supersede(Coordination, "assurance_instrument")>>
             rule == InitiateNonSubstantiveAmendmentRule
  <2>1. /\ 8 \in Nat /\ 8 + 1 <= 14 /\ 8 + 1 \in Nat /\ (8 + 1) + 1 <= 14
        /\ reissued \in SUBSET ScriptedKeys /\ more \in SUBSET ScriptedKeys
        /\ second \notin reissued /\ Key("assurance_instrument", 1) \in reissued
    BY <1>4, <1>6
  <2>2. Leads(a, RequestAmendment(rule), b)
    BY <1>4, <1>6, <2>1, RequestAmendmentLeads
  <2> HIDE DEF reissued
  <2>3. Leads(b, supersede, c)
    BY <2>1, ScriptVocabulary, SupersedeLeads
  <2> HIDE DEF more
  <2>4. Leads(c, Amendment, d)
    BY <2>1, AmendmentLeads
  <2>5. d.currentState = "amended"
    BY <1>2
  <2> HIDE DEF b, c, d, supersede, rule
  <2>6. Leads(Absent, buildIssuedBaseline(Full) \o RequestAmendment(rule), b)
    BY <1>3, <2>2, LeadsJoin
  <2>7. Leads(Absent, (buildIssuedBaseline(Full) \o RequestAmendment(rule)) \o supersede, c)
    BY <2>3, <2>6, LeadsJoin
  <2>8. Leads(Absent, ((buildIssuedBaseline(Full) \o RequestAmendment(rule)) \o supersede)
                        \o Amendment, d)
    BY <2>4, <2>7, LeadsJoin
  <2> QED
    BY <2>5, <2>8, Finalized DEF runNonSubstantiveAmendmentScenario, Full, supersede, rule
<1>12. Concludes(runMoreInformationLoopScenario, "issued")
  <2> DEFINE foreign == ForeignKeys(Full)
             asked == foreign \cup {Key("request_for_information_notice", 1)}
             answered == asked \cup {Key("response_to_information_package", 1)}
             approved == answered \cup {Key("foreign_regulator_response", 1)}
             issued == approved \cup {Key("assurance_instrument", 1)}
             s == buildUnderForeignReviewBaseline(Full)
             a == At("under_foreign_review", "none", 6, foreign)
             b == Waiting("under_foreign_review", 6 + 1, asked)
             c == At("under_foreign_review", "none", (6 + 1) + 1, answered)
             d == At("approved", "none", ((6 + 1) + 1) + 1, approved)
             e == At("issued", "none", (((6 + 1) + 1) + 1) + 1, issued)
  <2>1. /\ 6 \in Nat /\ 6 + 1 \in Nat /\ (6 + 1) + 1 \in Nat
        /\ ((6 + 1) + 1) + 1 \in Nat
        /\ 6 + 1 <= 14 /\ (6 + 1) + 1 <= 14 /\ ((6 + 1) + 1) + 1 <= 14
        /\ (((6 + 1) + 1) + 1) + 1 <= 14
    OBVIOUS
  <2>2. /\ foreign \in SUBSET ScriptedKeys /\ foreign \subseteq IssuedKeys(Full)
        /\ Key("foreign_regulator_response", 1) \notin foreign
        /\ Key("assurance_instrument", 1) \notin foreign
    <3>1. foreign \in SUBSET ScriptedKeys
          /\ Key("foreign_regulator_response", 1) \notin foreign
          /\ Key("assurance_instrument", 1) \notin ApprovedKeys(Full)
      BY <1>1, BaselineKeys
    <3> QED
      BY <3>1 DEF ApprovedKeys, IssuedKeys
  <2>3. /\ Key("request_for_information_notice", 1) \notin foreign
        /\ Key("response_to_information_package", 1) \notin foreign
    BY <1>4, <1>5, <2>2
  <2> HIDE DEF foreign
  <2>4. /\ asked \in SUBSET ScriptedKeys /\ answered \in SUBSET ScriptedKeys
        /\ approved \in SUBSET ScriptedKeys
    BY <2>2, ScriptVocabulary DEF Key, ScriptedKeys
  <2>5. /\ Key("response_to_information_package", 1) \notin asked
        /\ Key("foreign_regulator_response", 1) \notin answered
        /\ Key("assurance_instrument", 1) \notin approved
    BY <2>2, <2>3, KeysEqual
  <2>6. b \in Situation /\ Leads(a, InformationRequest(Foreign), b)
    BY <2>1, <2>2, <2>3, InformationRequestLeads
  <2> HIDE DEF asked
  <2>7. Leads(b, InformationResponse, c)
    BY <2>1, <2>4, <2>5, <2>6, InformationResponseLeads
  <2> HIDE DEF answered
  <2>8. Leads(c, Approval, d)
    BY <2>1, <2>4, <2>5, ApprovalLeads
  <2> HIDE DEF approved
  <2>9. Leads(d, Issuance, e)
    BY <2>1, <2>4, <2>5, IssuanceLeads
  <2>10. e.currentState = "issued"
    BY <1>2
  <2>11. Leads(Absent, s, a)
    BY <1>1, UnderForeignReviewLeads DEF foreign
  <2> HIDE DEF a, b, c, d, e, s
  <2>12. Leads(Absent, s \o InformationRequest(Foreign), b)
    BY <2>6, <2>11, LeadsJoin
  <2>13. Leads(Absent, (s \o InformationRequest(Foreign)) \o InformationResponse, c)
    BY <2>7, <2>12, LeadsJoin
  <2>14. Leads(Absent, ((s \o InformationRequest(Foreign)) \o InformationResponse)
                         \o Approval, d)
    BY <2>8, <2>13, LeadsJoin
  <2>15. Leads(Absent, (((s \o InformationRequest(Foreign)) \o InformationResponse)
                          \o Approval) \o Issuance, e)
    BY <2>9, <2>14, LeadsJoin
  <2> QED
    BY <2>10, <2>15, Finalized
    DEF runMoreInformationLoopScenario, InformationResponse, s, Full
<1>13. Concludes(runUnauthorizedAttemptScenario, "blocked")
  <2> DEFINE a == At("submitted", "none", 2, KeysOf(Minimal))
             attempt == Attempt(Applicant, RecordDomesticReviewRule, {}, "not_allowed")
  <2>1. Leads(Absent, buildSubmittedBaseline(Minimal), a)
    BY <1>1, SubmittedLeads
  <2>2. Refuses(a, attempt)
    BY DEF Refuses, Attempt, At, RecordDomesticReviewRule, Rule, ActorAllowed,
       ActorInGoodStanding, OfficerOf, OrganizationOf, AllowedActions,
       NationalRoles, NationalOrgs
  <2>3. a.currentState # "absent"
    BY <1>2
  <2> HIDE DEF a
  <2>4. Leads(a, <<attempt>>, a)
    BY <2>1, <2>2, <2>3, LeadsTyped, AttemptLeads
  <2>5. Leads(Absent, buildSubmittedBaseline(Minimal) \o <<attempt>>, a)
    BY <2>1, <2>4, LeadsJoin
  <2> QED
    BY <2>3, <2>5, Finalized DEF runUnauthorizedAttemptScenario, Minimal
<1>14. Concludes(runMissingDocumentPathScenario, "blocked")
  <2> DEFINE a == At("draft", "none", 1, KeysOf(Two))
             attempt == Attempt(Applicant, SubmitCaseRule, KeysOf(Two),
                                "missing_documents")
  <2>1. Leads(Absent, createDraftWithDocuments(Two), a)
    BY <1>1, CreationLeads
  <2>2. "end_use_declaration" \notin {key.type : key \in KeysOf(Two)}
    <3>1. /\ DOMAIN Two = {1, 2}
          /\ Two[1] = "assurance_application_form"
          /\ Two[2] = "item_technical_specification"
      BY ListsComplete DEF Two
    <3>2. KeysOf(Two) = {Key("assurance_application_form", 1),
                         Key("item_technical_specification", 1)}
      BY <3>1 DEF KeysOf
    <3> QED
      BY <3>2, KeysEqual
  <2>3. Refuses(a, attempt)
    BY <2>2 DEF Refuses, Attempt, At, SubmitCaseRule, Rule
  <2>4. a.currentState # "absent"
    BY <1>2
  <2> HIDE DEF a
  <2>5. Leads(a, <<attempt>>, a)
    BY <2>1, <2>3, <2>4, LeadsTyped, AttemptLeads
  <2>6. Leads(Absent, createDraftWithDocuments(Two) \o <<attempt>>, a)
    BY <2>1, <2>5, LeadsJoin
  <2> QED
    BY <2>4, <2>6, Finalized DEF runMissingDocumentPathScenario, Two
<1>15. Concludes(runInvalidTransitionAttemptScenario, "blocked")
  <2> DEFINE a == At("under_domestic_review", "none", 3, KeysOf(Minimal))
             attempt == Attempt(Coordination, ForwardToForeignAuthorityRule, {},
                                "no_transition")
  <2>1. Leads(Absent, buildUnderDomesticReviewBaseline(Minimal), a)
    BY <1>1, UnderDomesticReviewLeads
  <2>2. Refuses(a, attempt)
    BY DEF Refuses, Attempt, At, ForwardToForeignAuthorityRule, Rule
  <2>3. a.currentState # "absent"
    BY <1>2
  <2> HIDE DEF a
  <2>4. Leads(a, <<attempt>>, a)
    BY <2>1, <2>2, <2>3, LeadsTyped, AttemptLeads
  <2>5. Leads(Absent, buildUnderDomesticReviewBaseline(Minimal) \o <<attempt>>, a)
    BY <2>1, <2>4, LeadsJoin
  <2> QED
    BY <2>3, <2>5, Finalized DEF runInvalidTransitionAttemptScenario, Minimal
<1> QED
  BY <1>7, <1>8, <1>9, <1>10, <1>11, <1>12, <1>13, <1>14, <1>15
  DEF EVALUATION_SCENARIOS, expectedTerminalState

\* Two calls joined.
LEMMA PairJoined ==
  ASSUME NEW x, NEW y
  PROVE  <<x>> \o <<y>> = <<x, y>>
<1> DEFINE s == <<x>> \o <<y>>
           t == <<x, y>>
<1>1. /\ <<x>> \in Seq({x, y}) /\ <<y>> \in Seq({x, y})
      /\ Len(<<x>>) = 1 /\ Len(<<y>>) = 1 /\ <<x>>[1] = x /\ <<y>>[1] = y
  OBVIOUS
<1>2. s \in Seq({x, y}) /\ Len(s) = 2
  BY <1>1
<1>3. s[1] = x /\ s[2] = y
  BY <1>1, JoinedElements
<1>4. t \in Seq({x, y}) /\ Len(t) = 2 /\ t[1] = x /\ t[2] = y
  OBVIOUS
<1>5. s = [i \in 1 .. 2 |-> s[i]] /\ t = [i \in 1 .. 2 |-> t[i]]
  BY <1>2, <1>4
<1> HIDE DEF s, t
<1>6. \A i \in 1 .. 2 : s[i] = t[i]
  BY <1>3, <1>4
<1> QED
  BY <1>5, <1>6 DEF s, t

\* Every sample ends in the state its screenshot shows.
LEMMA SamplesConclude ==
  ASSUME RoomForScripts
  PROVE  \A i \in 1 .. 8 :
           Concludes(ScreenshotSamples[i].script, ScreenshotSamples[i].shows)
<1> DEFINE types == ScreenshotDocumentTypes
           issued == IssuedKeys(types)
           request == Key("amendment_request_package", 1)
           second == Key("assurance_instrument", 2)
           reissued == issued \cup {request}
           foreign == buildUnderForeignReviewBaseline(types)
           domestic == buildUnderDomesticReviewBaseline(types)
<1>1. types \in CompleteLists
  BY ListsComplete
<1>2. /\ createSubmittedCase = buildSubmittedBaseline(types)
      /\ createSubmittedCase \o <<Transition(Domestic, RecordDomesticReviewRule, {})>>
           = domestic
      /\ createUnderForeignReviewCase = foreign
      /\ createApprovedCase = foreign \o Approval
      /\ createIssuedCase = buildIssuedBaseline(types)
  BY DEF createSubmittedCase, createUnderForeignReviewCase, createApprovedCase,
     createIssuedCase, buildUnderForeignReviewBaseline,
     buildUnderDomesticReviewBaseline, buildIssuedBaseline
<1> HIDE DEF types
<1>3. /\ \A state, mode, sequence, keys :
           At(state, mode, sequence, keys).currentState = state
      /\ \A lane, sequence, keys :
           Waiting(lane, sequence, keys).currentState = "more_information_requested"
  BY DEF At, Waiting
<1>4. \A call, b : call.call # "finalize" => Outcome(call, b) = b.currentState
  BY DEF Outcome
<1>5. /\ issued \in SUBSET ScriptedKeys
      /\ \A type, n :
              type \notin SubmissionTypes \cup {"coordination_forwarding_package",
                            "foreign_regulator_response", "assurance_instrument"}
              \/ n = 2
              => Key(type, n) \notin issued
      /\ Key("assurance_instrument", 1) \in issued
  BY <1>1, BaselineKeys
<1>6. /\ {"amendment_request_package", "revocation_notice",
          "request_for_information_notice"}
           \cap (SubmissionTypes \cup {"coordination_forwarding_package",
                   "foreign_regulator_response", "assurance_instrument"}) = {}
      /\ "request_for_information_notice" \notin SubmissionTypes
  BY DEF SubmissionTypes
<1>7. /\ request \in ScriptedKeys /\ request \notin issued
      /\ second \in ScriptedKeys /\ second \notin issued
      /\ second # request
  BY <1>5, <1>6, ScriptVocabulary, KeysEqual DEF Key, ScriptedKeys
<1> HIDE DEF issued, request, second
<1>8. /\ Leads(Absent, domestic, At("under_domestic_review", "none", 3, KeysOf(types)))
      /\ KeysOf(types) \in SUBSET ScriptedKeys
      /\ Key("request_for_information_notice", 1) \notin KeysOf(types)
  BY <1>1, <1>6, UnderDomesticReviewLeads, SubmissionKeys DEF CompleteLists
<1>9. /\ Leads(Absent, foreign, At("under_foreign_review", "none", 6, ForeignKeys(types)))
      /\ Leads(Absent, foreign \o Approval,
               At("approved", "none", 7, ApprovedKeys(types)))
      /\ Leads(Absent, buildIssuedBaseline(types), At("issued", "none", 8, issued))
  BY <1>1, UnderForeignReviewLeads, IssuedLeads DEF issued
<1>10. \A s, b : /\ Leads(Absent, s, b)
                 /\ s[Len(s)].call # "finalize"
                 => Concludes(s, b.currentState)
  BY <1>4, LeadsTyped DEF Concludes
<1>11. Concludes(<<CreateDraft>>, "draft")
  <2>1. Leads(Absent, <<CreateDraft>>, Drafted)
    <3>1. Absent \in Situation /\ Drafted \in Situation
      BY AtTyped, ScriptVocabulary DEF Absent, Drafted
    <3>2. Takes(Absent, CreateDraft, Drafted)
      BY DEF Takes, CreateDraft
    <3> QED
      BY <3>1, <3>2, LeadsOne
  <2>2. <<CreateDraft>>[Len(<<CreateDraft>>)].call # "finalize"
    BY DEF CreateDraft
  <2>3. Drafted.currentState = "draft"
    BY DEF Drafted, At
  <2> QED
    BY <1>10, <2>1, <2>2, <2>3
<1>12. Concludes(createMoreInfoCase, "more_information_requested")
  <2> DEFINE a == At("under_domestic_review", "none", 3, KeysOf(types))
             b == Waiting("under_domestic_review", 3 + 1,
                    KeysOf(types) \cup {Key("request_for_information_notice", 1)})
             t == InformationRequest(Domestic)
  <2>1. 3 \in Nat /\ 3 + 1 <= 14
    OBVIOUS
  <2>2. Leads(a, t, b)
    BY <1>8, <2>1, InformationRequestLeads
  <2>3. t # <<>> /\ t[Len(t)].call # "finalize"
    BY DEF InformationRequest, Transition
  <2>4. b.currentState = "more_information_requested"
    BY <1>3
  <2> HIDE DEF b, t
  <2>5. Concludes(domestic \o t, b.currentState)
    BY <1>4, <1>8, <2>2, <2>3, Concluded
  <2> QED
    BY <1>2, <2>4, <2>5 DEF createMoreInfoCase, t
<1>13. Concludes(createRejectedCase, "rejected")
  <2> DEFINE first == Transition(Domestic, RecordDomesticReviewRule, {})
             last == Transition(Domestic, RejectCaseRule, {})
             t == <<first, last>>
             a == At("submitted", "none", 2, KeysOf(types))
             b == At("under_domestic_review", "none", 2 + 1, KeysOf(types))
             c == At("rejected", "none", (2 + 1) + 1, KeysOf(types))
  <2>1. 2 \in Nat /\ 2 + 1 <= 14 /\ 2 + 1 \in Nat /\ (2 + 1) + 1 <= 14
    OBVIOUS
  <2>2. Leads(a, <<first>>, b) /\ Leads(b, <<last>>, c)
    BY <1>8, <2>1, MoveLeads, ScriptTransitions, ScriptVocabulary
  <2>3. Leads(a, t, c)
    <3>1. Leads(a, <<first>> \o <<last>>, c)
      BY <2>2, LeadsJoin
    <3>2. <<first>> \o <<last>> = t
      BY PairJoined
    <3> QED
      BY <3>1, <3>2
  <2>4. t # <<>> /\ t[Len(t)].call # "finalize"
    BY DEF Transition
  <2>5. c.currentState = "rejected"
    BY <1>3
  <2>6. Leads(Absent, createSubmittedCase, a)
    BY <1>1, <1>2, SubmittedLeads
  <2> HIDE DEF a, c, t
  <2>7. Concludes(createSubmittedCase \o t, c.currentState)
    BY <1>4, <2>3, <2>4, <2>6, Concluded
  <2> QED
    BY <2>5, <2>7 DEF createRejectedCase, t
<1>14. Concludes(createUnderForeignReviewCase, "under_foreign_review")
  <2>1. Concludes(domestic \o Forwarding(1), "under_foreign_review")
    <3> DEFINE a == At("under_domestic_review", "none", 3, KeysOf(types))
               b == At("under_foreign_review", "none", 3 + 3, ForeignKeys(types))
    <3>1. 3 \in Nat /\ 3 + 3 <= 14
      OBVIOUS
    <3>2. Leads(a, Forwarding(1), b)
      BY <1>1, <1>8, <3>1, ForwardingLeads, BaselineKeys DEF ForeignKeys
    <3>3. Forwarding(1) # <<>> /\ Forwarding(1)[Len(Forwarding(1))].call # "finalize"
      BY DEF Forwarding, Transition
    <3>4. b.currentState = "under_foreign_review"
      BY <1>3
    <3> HIDE DEF b
    <3> QED
      BY <1>4, <1>8, <3>2, <3>3, <3>4, Concluded
  <2> QED
    BY <1>2, <2>1 DEF buildUnderForeignReviewBaseline
<1>15. /\ Concludes(createApprovedCase, "approved")
       /\ Concludes(createIssuedCase, "issued")
  <2> DEFINE a == At("under_foreign_review", "none", 6, ForeignKeys(types))
             b == At("approved", "none", 6 + 1, ApprovedKeys(types))
             c == At("issued", "none", (6 + 1) + 1, issued)
  <2>1. 6 \in Nat /\ 6 + 1 <= 14 /\ 6 + 1 \in Nat /\ (6 + 1) + 1 <= 14 /\ 6 + 1 = 7
    OBVIOUS
  <2>2. Leads(a, Approval, b)
    BY <1>1, <2>1, ApprovalLeads, BaselineKeys DEF ApprovedKeys
  <2>3. Leads(b, Issuance, c)
    BY <1>1, <2>1, IssuanceLeads, BaselineKeys DEF issued, IssuedKeys
  <2>4. /\ Approval # <<>> /\ Approval[Len(Approval)].call # "finalize"
        /\ Issuance # <<>> /\ Issuance[Len(Issuance)].call # "finalize"
    BY DEF Approval, Issuance, Transition
  <2>5. b.currentState = "approved" /\ c.currentState = "issued"
    BY <1>3
  <2>6. Leads(Absent, foreign \o Approval, b)
    BY <1>9, <2>1
  <2> HIDE DEF b, c
  <2>7. Concludes(foreign \o Approval, b.currentState)
    BY <1>4, <1>9, <2>2, <2>4, Concluded
  <2>8. Concludes((foreign \o Approval) \o Issuance, c.currentState)
    BY <1>4, <2>3, <2>4, <2>6, Concluded
  <2> QED
    BY <1>2, <2>5, <2>7, <2>8 DEF buildIssuedBaseline
<1>16. Concludes(createRevokedCase, "revoked")
  <2> DEFINE a == At("issued", "none", 8, issued)
             b == At("revoked", "none", 8 + 1, issued \cup {Key("revocation_notice", 1)})
  <2>1. 8 \in Nat /\ 8 + 1 <= 14 /\ Key("revocation_notice", 1) \notin issued
    BY <1>5, <1>6
  <2>2. Leads(a, Revocation, b)
    BY <1>5, <2>1, RevocationLeads
  <2>3. Revocation # <<>> /\ Revocation[Len(Revocation)].call # "finalize"
    BY DEF Revocation, Transition
  <2>4. b.currentState = "revoked"
    BY <1>3
  <2> HIDE DEF b
  <2>5. Concludes(buildIssuedBaseline(types) \o Revocation, b.currentState)
    BY <1>4, <1>9, <2>2, <2>3, Concluded
  <2> QED
    BY <1>2, <2>4, <2>5 DEF createRevokedCase
<1>17. Concludes(createAmendedCase, "amended")
  <2> DEFINE a == At("issued", "none", 8, issued)
             b == At("awaiting_coordination", "non_substantive", 8 + 1, reissued)
             more == reissued \cup {second}
             c == At("awaiting_coordination", "non_substantive", 8 + 1, more)
             d == At("amended", "none", (8 + 1) + 1, more)
             supersede == <<Supersede(Coordination, "assurance_instrument")>>
             rule == InitiateNonSubstantiveAmendmentRule
  <2>1. /\ 8 \in Nat /\ 8 + 1 <= 14 /\ 8 + 1 \in Nat /\ (8 + 1) + 1 <= 14
        /\ reissued \in SUBSET ScriptedKeys /\ more \in SUBSET ScriptedKeys
        /\ second \notin reissued /\ Key("assurance_instrument", 1) \in reissued
    BY <1>5, <1>7
  <2>2. Leads(a, RequestAmendment(rule), b)
    BY <1>5, <1>7, <2>1, RequestAmendmentLeads DEF request
  <2> HIDE DEF reissued
  <2>3. Leads(b, supersede, c)
    BY <2>1, ScriptVocabulary, SupersedeLeads DEF second
  <2> HIDE DEF more
  <2>4. Leads(c, Amendment, d)
    BY <2>1, AmendmentLeads
  <2>5. d.currentState = "amended"
    BY <1>3
  <2>6. Amendment # <<>> /\ Amendment[Len(Amendment)].call # "finalize"
    BY DEF Amendment, Transition
  <2> HIDE DEF b, c, d, supersede, rule
  <2>7. Leads(Absent, buildIssuedBaseline(types) \o RequestAmendment(rule), b)
    BY <1>9, <2>2, LeadsJoin
  <2>8. Leads(Absent, (buildIssuedBaseline(types) \o RequestAmendment(rule)) \o supersede, c)
    BY <2>3, <2>7, LeadsJoin
  <2>9. Concludes(((buildIssuedBaseline(types) \o RequestAmendment(rule)) \o supersede)
                     \o Amendment, d.currentState)
    BY <1>4, <2>4, <2>6, <2>8, Concluded
  <2> QED
    BY <1>2, <2>5, <2>9 DEF createAmendedCase, supersede, rule
<1> HIDE DEF foreign, domestic
<1> QED
  BY <1>11, <1>12, <1>13, <1>14, <1>15, <1>16, <1>17 DEF ScreenshotSamples

\* No two scenarios, and no two samples, work on one case.
LEMMA CasesDistinct ==
  /\ \A i, j \in 1 .. 9 :
       EVALUATION_SCENARIOS[i].id = EVALUATION_SCENARIOS[j].id => i = j
  /\ \A i, j \in 1 .. 8 :
       ScreenshotSamples[i].id = ScreenshotSamples[j].id => i = j
BY DEF EVALUATION_SCENARIOS, ScreenshotSamples

-----------------------------------------------------------------------------
(* What the suite and the pack report. *)

\* The events that a call adds: at most the one of what it does.
LEMMA EventsOfEffect ==
  ASSUME NEW case, NEW call, Effect(case, call)
  PROVE  \A e \in events' :
           \/ e \in events
           \/ /\ e.caseId = case
              /\ \/ call.call = "createDraft" /\ e.actionType = "create_case"
                 \/ /\ call.call \in {"transition", "attempt"}
                    /\ e.actionType = call.rule.action
<1>1. CASE call.call = "createDraft" /\ createCase(case, OfficerOf(Applicant))
  BY <1>1 DEF createCase, appendEvent
<1>2. CASE call.call = "upload" /\ uploadDocument(case, call)
  BY <1>2 DEF uploadDocument
<1>3. CASE call.call \in {"transition", "attempt"} /\ transitionCase(case, call)
  <2> DEFINE event == [caseId |-> case,
                       sequence |-> cases[case].auditSequenceNumber + 1,
                       actionType |-> call.rule.action,
                       previousState |-> cases[case].currentState,
                       newState |-> nextState(cases[case], call.rule)]
  <2>1. \A ids : LET d == applyTransition(cases[case], call.rule,
                                          OfficerOf(call.role), ids)
                 IN /\ d.auditSequenceNumber = cases[case].auditSequenceNumber + 1
                    /\ d.currentState = nextState(cases[case], call.rule)
    BY DEF applyTransition
  <2>2. appendEvent(event)
    BY <1>3, <2>1 DEF transitionCase, performTransition
  <2>3. event.caseId = case /\ event.actionType = call.rule.action
    OBVIOUS
  <2> HIDE DEF event
  <2> QED
    BY <1>3, <2>2, <2>3 DEF appendEvent
<1>4. CASE call.call = "finalize" /\ UNCHANGED chaincodeVars
  BY <1>4 DEF chaincodeVars, vars
<1> QED
  BY <1>1, <1>2, <1>3, <1>4 DEF Effect

\* What the k-th script of a tool is to report, and whether the ledger shows it.
Verdict(t, k) ==
  IF t = "suite" THEN expectedTerminalState[k] ELSE ScreenshotSamples[k].shows

Report(t, k) == [id |-> Plan[t][k].id, terminalState |-> Verdict(t, k)]

Shown(t, k) ==
  Verdict(t, k) # "blocked" =>
    /\ Exists(Plan[t][k].id)
    /\ StateOf(Plan[t][k].id) = Verdict(t, k)

\* The script under way leads to its verdict, from the situation that its case
\* is in; the cases of the scripts to come are not there yet.
RunningInv ==
  /\ \E a, b \in Situation :
       /\ Agrees(caseId, a)
       /\ Leads(a, script, b)
       /\ Verdict(tool, Position) = Outcome(script[Len(script)], b)
  /\ \A k \in 1 .. Len(Plan[tool]) : k > Position => Agrees(Plan[tool][k].id, Absent)

\* After p - 1 scripts: each result is the report of a script that is done,
\* each of these has a result or an error, and each error a failure from outside.
Accounts(t, reports, failed, outside, p) ==
  /\ reports \in Seq({Report(t, k) : k \in 1 .. Len(Plan[t])})
  /\ failed \in Seq({Plan[t][k].id : k \in 1 .. Len(Plan[t])})
  /\ \A j \in 1 .. Len(reports) : \E k \in 1 .. p - 1 : reports[j] = Report(t, k)
  /\ \A j \in 1 .. Len(failed) : \E k \in 1 .. p - 1 : failed[j] = Plan[t][k].id
  /\ \A k \in 1 .. p - 1 :
       \/ \E j \in 1 .. Len(reports) : reports[j] = Report(t, k)
       \/ \E j \in 1 .. Len(failed) : failed[j] = Plan[t][k].id
  /\ Len(reports) + Len(failed) = p - 1
  /\ Len(failed) <= outside
  /\ t = "pack" =>
       failed = <<>> /\ \A j \in 1 .. Len(reports) : reports[j] = Report(t, j)

AccountInv == Accounts(tool, results, errors, failures, Position)

\* The ledger shows what has been reported.
ReportInv ==
  \A k \in 1 .. Position - 1 :
    (\E j \in 1 .. Len(results) : results[j] = Report(tool, k)) => Shown(tool, k)

\* No attempt has left an event of its action.
TrailInv ==
  tool = "suite" =>
    \A k \in 1 .. 9 : \A e \in Trail(Plan[tool][k].id) :
      e.actionType # AttemptedActions[k]

ScriptInv ==
  RoomForScripts /\ tool # "seeding" =>
    /\ phase = "running" => RunningInv
    /\ ReportInv
    /\ AccountInv
    /\ TrailInv

\* Whatever the suite or the pack carries out concludes with its verdict, on a
\* case that no other script of the tool works on.
LEMMA PlanConcludes ==
  ASSUME RoomForScripts, NEW t \in {"suite", "pack"}, NEW k \in 1 .. Len(Plan[t])
  PROVE  /\ Concludes(Plan[t][k].script, Verdict(t, k))
         /\ Plan[t][k].id \in ScriptedCases
         /\ \A i \in 1 .. Len(Plan[t]) : Plan[t][i].id = Plan[t][k].id => i = k
<1>1. CASE t = "suite"
  <2>1. Plan[t] = EVALUATION_SCENARIOS /\ Len(Plan[t]) = 9
    BY <1>1, ScenarioScripts DEF Plan
  <2>2. Verdict(t, k) = expectedTerminalState[k]
    BY <1>1 DEF Verdict
  <2>3. k \in 1 .. 9
    BY <2>1
  <2>4. Concludes(EVALUATION_SCENARIOS[k].script, expectedTerminalState[k])
    BY <2>3, ScenariosConclude
  <2>5. Concludes(Plan[t][k].script, Verdict(t, k))
    BY <2>1, <2>2, <2>4
  <2>6. \A i \in 1 .. Len(Plan[t]) : Plan[t][i].id = Plan[t][k].id => i = k
    BY <2>1, <2>3, CasesDistinct
  <2> QED
    BY <2>5, <2>6, PlansTyped
<1>2. CASE t = "pack"
  <2>1. Plan[t] = ScreenshotSamples /\ Len(Plan[t]) = 8
    BY <1>2, SampleScripts DEF Plan
  <2>2. Verdict(t, k) = ScreenshotSamples[k].shows
    BY <1>2 DEF Verdict
  <2> QED
    BY <2>1, <2>2, SamplesConclude, CasesDistinct, PlansTyped
<1> QED
  BY <1>1, <1>2

\* It holds before the first call.
LEMMA ScriptInvInit ==
  ASSUME EvaluationInit PROVE ScriptInv
<1> SUFFICES ASSUME RoomForScripts, tool # "seeding"
             PROVE  RunningInv /\ ReportInv /\ AccountInv /\ TrailInv
  BY DEF ScriptInv
<1>1. /\ tool \in {"suite", "pack"}
      /\ todo = Plan[tool] /\ script = Head(todo).script
      /\ results = <<>> /\ errors = <<>> /\ failures = 0
      /\ ChaincodeInit
  BY DEF EvaluationInit, Plan
<1>2. /\ Head(todo) = Plan[tool][1] /\ 1 \in 1 .. Len(Plan[tool])
      /\ Position = 1
  BY <1>1, PlanStarts DEF Position
<1>3. \A case \in ScriptedCases : Agrees(case, Absent)
  <2>1. \A case \in ScriptedCases : ~Exists(case)
    BY <1>1, IdentifiersAssumption DEF ChaincodeInit, Init, Exists
  <2>2. \A case \in ScriptedCases, key \in ScriptedKeys :
          documents[DocumentIdOf(case, key)] = NoDocument
    BY <1>1, IdentifiersAssumption DEF ChaincodeInit, Documents!Init
  <2>3. Absent.currentState = "absent" /\ Absent.keys = {}
    BY DEF Absent, At
  <2> QED
    BY <2>1, <2>2, <2>3 DEF Agrees
<1>4. RunningInv
  <2>1. \A k \in 1 .. Len(Plan[tool]) : Agrees(Plan[tool][k].id, Absent)
    BY <1>1, <1>3, PlanConcludes
  <2>2. Concludes(script, Verdict(tool, Position))
    BY <1>1, <1>2, PlanConcludes
  <2>3. caseId = Plan[tool][1].id
    BY <1>2 DEF caseId
  <2> QED
    BY <1>2, <2>1, <2>2, <2>3, LeadsTyped DEF RunningInv, Concludes
<1>5. Len(results) = 0 /\ Len(errors) = 0 /\ Position - 1 = 0
  BY <1>1, <1>2
<1>6. ReportInv
  BY <1>1, <1>5 DEF ReportInv
<1>7. AccountInv
  BY <1>1, <1>5 DEF AccountInv, Accounts
<1>8. TrailInv
  BY <1>1 DEF TrailInv, Trail, ChaincodeInit, Init
<1> QED
  BY <1>4, <1>6, <1>7, <1>8

\* A call on the case of the script under way leaves the other cases as they
\* were.
LEMMA KeptElsewhere ==
  ASSUME EvaluationInv, RoomForScripts, phase = "running",
         NEW t \in {"suite", "pack"}, tool = t,
         Effect(caseId, Call) \/ UNCHANGED chaincodeVars,
         NEW k \in 1 .. Len(Plan[t]), k # Position
  PROVE  /\ Shown(t, k) => Shown(t, k)'
         /\ Agrees(Plan[t][k].id, Absent) => Agrees(Plan[t][k].id, Absent)'
<1>1. PICK id : id = Plan[t][k].id
  OBVIOUS
<1>2. /\ caseId \in ScriptedCases /\ id \in ScriptedCases /\ id # caseId
      /\ Call \in ScriptCalls(AttemptedAction(t, Position))
  BY <1>1, AtPosition, PlanConcludes DEF EvaluationInv
<1>3. /\ cases'[id] = cases[id]
      /\ Agrees(id, Absent) => Agrees(id, Absent)'
  <2>1. CASE Effect(caseId, Call)
    <3>1. cases'[id] = cases[id]
      BY <1>2, <2>1, CasesOfEffect, IdentifiersAssumption DEF EvaluationInv, LedgerInv
    <3> QED
      BY <1>2, <2>1, <3>1, OthersAgree DEF EvaluationInv, LedgerInv
  <2>2. CASE UNCHANGED chaincodeVars
    BY <2>2 DEF chaincodeVars, vars, Agrees, Exists, Fits, HasDocument
  <2> QED
    BY <2>1, <2>2
<1>4. Shown(t, k) => Shown(t, k)'
  BY <1>1, <1>3 DEF Shown, Exists, StateOf
<1> QED
  BY <1>1, <1>3, <1>4

\* An event that a call adds is not of the action that the script attempts.
LEMMA TrailKept ==
  ASSUME EvaluationInv, RoomForScripts, phase = "running", TrailInv, tool' = tool,
         tool # "seeding",
         \/ Effect(caseId, Call) /\ Call.call # "attempt"
         \/ UNCHANGED chaincodeVars
  PROVE  TrailInv'
<1> SUFFICES ASSUME tool = "suite", NEW k \in 1 .. 9,
                    NEW e \in events', e.caseId = Plan["suite"][k].id
             PROVE  e.actionType # AttemptedActions[k]
  BY DEF TrailInv, Trail
<1>1. e \in events => e.actionType # AttemptedActions[k]
  BY DEF TrailInv, Trail
<1>2. CASE e \notin events
  <2>1. Effect(caseId, Call) /\ Call.call # "attempt"
    BY <1>2 DEF chaincodeVars, vars
  <2>2. /\ e.caseId = caseId
        /\ \/ Call.call = "createDraft" /\ e.actionType = "create_case"
           \/ Call.call = "transition" /\ e.actionType = Call.rule.action
    BY <1>2, <2>1, EventsOfEffect
  <2>3. /\ Position \in 1 .. 9 /\ caseId = Plan["suite"][Position].id
        /\ Call \in ScriptCalls(AttemptedActions[Position])
        /\ AttemptedActions[Position] # "create_case"
    <3>1. Len(Plan["suite"]) = 9
      BY ScenarioScripts DEF Plan
    <3>2. AttemptedAction("suite", Position) = AttemptedActions[Position]
      BY DEF AttemptedAction
    <3> QED
      BY <3>1, <3>2, AtPosition DEF EvaluationInv
  <2>4. k = Position
    <3>1. Len(Plan["suite"]) = 9
      BY ScenarioScripts DEF Plan
    <3> QED
      BY <2>2, <2>3, <3>1, PlanConcludes
  <2>5. e.actionType # AttemptedActions[Position]
    BY <2>2, <2>3, CallTypes
  <2> QED
    BY <2>4, <2>5
<1> QED
  BY <1>1, <1>2

\* The next script begins on a case that is not there yet.
LEMMA NextScriptRuns ==
  ASSUME EvaluationInv, RoomForScripts, phase = "running", nextScript,
         NEW t \in {"suite", "pack"}, tool = t, tool' = t,
         \A k \in 1 .. Len(Plan[t]) :
           k > Position => Agrees(Plan[t][k].id, Absent)'
  PROVE  phase' = "running" => RunningInv'
<1> SUFFICES ASSUME phase' = "running" PROVE RunningInv'
  OBVIOUS
<1>1. PICK p \in Nat : p = Position
  BY AtPosition, PlansTyped DEF EvaluationInv
<1>2. /\ Position' = p + 1
      /\ p + 1 \in 1 .. Len(Plan[t])
      /\ caseId' = Plan[t][p + 1].id
      /\ script' = Plan[t][p + 1].script
  BY <1>1, NextScriptMoves DEF EvaluationInv
<1>3. PICK b \in Situation :
        /\ Leads(Absent, Plan[t][p + 1].script, b)
        /\ Verdict(t, p + 1) =
             Outcome(Plan[t][p + 1].script[Len(Plan[t][p + 1].script)], b)
  BY <1>2, PlanConcludes DEF Concludes
<1>4. PICK s, n : s = Plan[t][p + 1].script /\ n = Len(Plan[t])
  OBVIOUS
<1>5. \A k \in 1 .. n : k > p + 1 => Agrees(Plan[t][k].id, Absent)'
  BY <1>1, <1>4, PlansTyped
<1>6. PICK c : c = Plan[t][p + 1].id
  OBVIOUS
<1>7. Agrees(c, Absent)'
  <2>1. p + 1 > Position
    BY <1>1
  <2> QED
    BY <1>2, <1>6, <2>1
<1>8. Absent \in Situation /\ Leads(Absent, s, b)
  BY <1>3, <1>4, LeadsTyped
<1>9. Verdict(t, p + 1) = Outcome(s[Len(s)], b)
  BY <1>3, <1>4
<1>10. script' = s /\ caseId' = c /\ tool' = t
  BY <1>2, <1>4, <1>6
<1>11. (\E a, z \in Situation :
          /\ Agrees(caseId, a)
          /\ Leads(a, script, z)
          /\ Verdict(tool, Position) = Outcome(script[Len(script)], z))'
  BY <1>2, <1>7, <1>8, <1>9, <1>10
<1>12. (\A k \in 1 .. Len(Plan[tool]) : k > Position => Agrees(Plan[tool][k].id, Absent))'
  BY <1>2, <1>4, <1>5, <1>10
<1> QED
  BY <1>11, <1>12 DEF RunningInv

\* A result more, or an error more, for the script that is done.
LEMMA AccountsResult ==
  ASSUME NEW t \in {"suite", "pack"}, NEW p \in 1 .. Len(Plan[t]),
         NEW reports, NEW failed, NEW outside \in Nat,
         Accounts(t, reports, failed, outside, p)
  PROVE  Accounts(t, Append(reports, Report(t, p)), failed, outside, p + 1)
<1> DEFINE R == {Report(t, k) : k \in 1 .. Len(Plan[t])}
           more == Append(reports, Report(t, p))
<1>1. /\ Len(Plan[t]) \in Nat /\ p \in Nat /\ p >= 1
      /\ reports \in Seq(R) /\ Len(reports) \in Nat
      /\ Report(t, p) \in R
      /\ failed \in Seq({Plan[t][k].id : k \in 1 .. Len(Plan[t])})
      /\ Len(failed) \in Nat
  <2>1. Len(Plan[t]) \in Nat
    BY PlansTyped
  <2>2. p \in Nat /\ p >= 1
    BY <2>1
  <2>3. /\ reports \in Seq(R)
        /\ failed \in Seq({Plan[t][k].id : k \in 1 .. Len(Plan[t])})
    BY DEF Accounts
  <2>4. Len(reports) \in Nat /\ Len(failed) \in Nat
    BY <2>3
  <2> QED
    BY <2>1, <2>2, <2>3, <2>4
<1> HIDE DEF R
<1>2. /\ more \in Seq(R) /\ Len(more) = Len(reports) + 1
      /\ \A j \in 1 .. Len(reports) : more[j] = reports[j]
      /\ more[Len(reports) + 1] = Report(t, p)
  BY <1>1
<1> HIDE DEF more
<1>3. \A j \in 1 .. Len(more) : \E k \in 1 .. p : more[j] = Report(t, k)
  <2> SUFFICES ASSUME NEW j \in 1 .. Len(more)
               PROVE  \E k \in 1 .. p : more[j] = Report(t, k)
    OBVIOUS
  <2>1. CASE j = Len(reports) + 1
    BY <1>1, <1>2, <2>1
  <2>2. CASE j # Len(reports) + 1
    <3>1. j \in 1 .. Len(reports)
      BY <1>1, <1>2, <2>2
    <3>2. PICK k \in 1 .. p - 1 : reports[j] = Report(t, k)
      BY <3>1 DEF Accounts
    <3> QED
      BY <1>1, <1>2, <3>1, <3>2
  <2> QED
    BY <2>1, <2>2
<1>4. \A k \in 1 .. p : \/ \E j \in 1 .. Len(more) : more[j] = Report(t, k)
                        \/ \E j \in 1 .. Len(failed) : failed[j] = Plan[t][k].id
  <2> SUFFICES ASSUME NEW k \in 1 .. p
               PROVE  \/ \E j \in 1 .. Len(more) : more[j] = Report(t, k)
                      \/ \E j \in 1 .. Len(failed) : failed[j] = Plan[t][k].id
    OBVIOUS
  <2>1. CASE k = p
    <3>1. Len(reports) + 1 \in 1 .. Len(more)
      BY <1>1, <1>2
    <3> QED
      BY <1>2, <2>1, <3>1
  <2>2. CASE k # p
    <3>1. k \in 1 .. p - 1
      BY <1>1, <2>2
    <3>2. \/ \E j \in 1 .. Len(reports) : reports[j] = Report(t, k)
          \/ \E j \in 1 .. Len(failed) : failed[j] = Plan[t][k].id
      BY <3>1 DEF Accounts
    <3>3. \A j \in 1 .. Len(reports) : j \in 1 .. Len(more) /\ more[j] = reports[j]
      BY <1>1, <1>2
    <3> QED
      BY <3>2, <3>3
  <2> QED
    BY <2>1, <2>2
<1>5. \A j \in 1 .. Len(failed) : \E k \in 1 .. p : failed[j] = Plan[t][k].id
  BY <1>1 DEF Accounts
<1>6. Len(more) + Len(failed) = p /\ (p + 1) - 1 = p /\ Len(failed) <= outside
  BY <1>1, <1>2 DEF Accounts
<1>7. t = "pack" =>
        failed = <<>> /\ \A j \in 1 .. Len(more) : more[j] = Report(t, j)
  <2> SUFFICES ASSUME t = "pack"
               PROVE  failed = <<>> /\ \A j \in 1 .. Len(more) : more[j] = Report(t, j)
    OBVIOUS
  <2>1. failed = <<>> /\ \A j \in 1 .. Len(reports) : reports[j] = Report(t, j)
    BY DEF Accounts
  <2>2. Len(failed) = 0
    BY <2>1
  <2>3. Len(reports) + 1 = p
    BY <1>1, <1>2, <1>6, <2>2
  <2> QED
    BY <1>1, <1>2, <2>1, <2>3
<1> DEFINE q == p + 1
<1>8. q - 1 = p
  BY <1>6
<1> HIDE DEF q
<1>9. Accounts(t, more, failed, outside, q)
  BY <1>1, <1>2, <1>3, <1>4, <1>5, <1>6, <1>7, <1>8 DEF Accounts, R
<1> QED
  BY <1>9 DEF more, q

\* An error from outside accounts for a scenario of the suite.
LEMMA AccountsError ==
  ASSUME NEW p \in 1 .. Len(Plan["suite"]),
         NEW reports, NEW failed, NEW outside \in Nat,
         Accounts("suite", reports, failed, outside, p)
  PROVE  Accounts("suite", reports, Append(failed, Plan["suite"][p].id),
                  outside + 1, p + 1)
<1> DEFINE t == "suite"
           I == {Plan[t][k].id : k \in 1 .. Len(Plan[t])}
           id == Plan[t][p].id
           more == Append(failed, id)
<1>1. /\ Len(Plan[t]) \in Nat /\ p \in Nat /\ p >= 1
      /\ failed \in Seq(I) /\ Len(failed) \in Nat
      /\ id \in I
      /\ reports \in Seq({Report(t, k) : k \in 1 .. Len(Plan[t])})
      /\ Len(reports) \in Nat
  <2>1. Len(Plan[t]) \in Nat
    BY PlansTyped
  <2>2. p \in Nat /\ p >= 1
    BY <2>1
  <2>3. /\ failed \in Seq(I)
        /\ reports \in Seq({Report(t, k) : k \in 1 .. Len(Plan[t])})
    BY DEF Accounts
  <2>4. Len(reports) \in Nat /\ Len(failed) \in Nat
    BY <2>3
  <2>5. id \in I
    OBVIOUS
  <2> QED
    BY <2>1, <2>2, <2>3, <2>4, <2>5
<1> HIDE DEF I, t, id
<1>2. /\ more \in Seq(I) /\ Len(more) = Len(failed) + 1
      /\ \A j \in 1 .. Len(failed) : more[j] = failed[j]
      /\ more[Len(failed) + 1] = id
  BY <1>1
<1> HIDE DEF more
<1>3. \A j \in 1 .. Len(more) : \E k \in 1 .. p : more[j] = Plan[t][k].id
  <2> SUFFICES ASSUME NEW j \in 1 .. Len(more)
               PROVE  \E k \in 1 .. p : more[j] = Plan[t][k].id
    OBVIOUS
  <2>1. CASE j = Len(failed) + 1
    BY <1>1, <1>2, <2>1 DEF id
  <2>2. CASE j # Len(failed) + 1
    <3>1. j \in 1 .. Len(failed)
      BY <1>1, <1>2, <2>2
    <3>2. PICK k \in 1 .. p - 1 : failed[j] = Plan[t][k].id
      BY <3>1 DEF Accounts, t
    <3> QED
      BY <1>1, <1>2, <3>1, <3>2
  <2> QED
    BY <2>1, <2>2
<1>4. \A k \in 1 .. p : \/ \E j \in 1 .. Len(reports) : reports[j] = Report(t, k)
                        \/ \E j \in 1 .. Len(more) : more[j] = Plan[t][k].id
  <2> SUFFICES ASSUME NEW k \in 1 .. p
               PROVE  \/ \E j \in 1 .. Len(reports) : reports[j] = Report(t, k)
                      \/ \E j \in 1 .. Len(more) : more[j] = Plan[t][k].id
    OBVIOUS
  <2>1. CASE k = p
    <3>1. Len(failed) + 1 \in 1 .. Len(more)
      BY <1>1, <1>2
    <3> QED
      BY <1>2, <2>1, <3>1 DEF id
  <2>2. CASE k # p
    <3>1. k \in 1 .. p - 1
      BY <1>1, <2>2
    <3>2. \/ \E j \in 1 .. Len(reports) : reports[j] = Report(t, k)
          \/ \E j \in 1 .. Len(failed) : failed[j] = Plan[t][k].id
      BY <3>1 DEF Accounts, t
    <3>3. \A j \in 1 .. Len(failed) : j \in 1 .. Len(more) /\ more[j] = failed[j]
      BY <1>1, <1>2
    <3> QED
      BY <3>2, <3>3
  <2> QED
    BY <2>1, <2>2
<1>5. \A j \in 1 .. Len(reports) : \E k \in 1 .. p : reports[j] = Report(t, k)
  BY <1>1 DEF Accounts, t
<1>6. /\ Len(reports) + Len(more) = p /\ (p + 1) - 1 = p
      /\ Len(more) <= outside + 1
  BY <1>1, <1>2 DEF Accounts, t
<1>7. t # "pack"
  BY DEF t
<1>8. Accounts(t, reports, more, outside + 1, p + 1)
  BY <1>1, <1>2, <1>3, <1>4, <1>5, <1>6, <1>7 DEF Accounts, I
<1> QED
  BY <1>8 DEF more, t, id

\* A call of the script has succeeded.
LEMMA AdvanceKeeps ==
  ASSUME EvaluationInv, RoomForScripts, phase = "running",
         NEW t \in {"suite", "pack"}, tool = t, tool' = t,
         AccountInv, ReportInv, advance, UNCHANGED <<errors, failures>>,
         NEW c, c = caseId, NEW m \in Situation, NEW b \in Situation,
         Leads(m, Tail(script), b), Agrees(c, m)', m.currentState # "absent",
         Verdict(t, Position) = Outcome(script[Len(script)], b),
         \A k \in 1 .. Len(Plan[t]) : k # Position =>
           /\ Shown(t, k) => Shown(t, k)'
           /\ Agrees(Plan[t][k].id, Absent) => Agrees(Plan[t][k].id, Absent)',
         \A k \in 1 .. Len(Plan[t]) : k > Position => Agrees(Plan[t][k].id, Absent)
  PROVE  (phase' = "running" => RunningInv') /\ AccountInv' /\ ReportInv'
<1> DEFINE Goal == (phase' = "running" => RunningInv') /\ AccountInv' /\ ReportInv'
<1> SUFFICES Goal
  OBVIOUS
<1> HIDE DEF Goal
<1>1. PICK p \in Nat, n \in Nat, l \in Nat :
        /\ p = Position /\ n = Len(Plan[t]) /\ l = Len(results)
        /\ p \in 1 .. n
        /\ c = Plan[t][p].id
        /\ Len(script) \in Nat \ {0}
        /\ failures \in Nat
  <2>1. Len(results) \in Nat
    BY DEF AccountInv, Accounts
  <2> QED
    BY <2>1, AtPosition, PlansTyped DEF EvaluationInv, ProgressInv
<1>2. \A k \in 1 .. n : k # p =>
        /\ Shown(t, k) => Shown(t, k)'
        /\ Agrees(Plan[t][k].id, Absent) => Agrees(Plan[t][k].id, Absent)'
  BY <1>1
<1>3. \A k \in 1 .. n : k > p => Agrees(Plan[t][k].id, Absent)'
  BY <1>1, <1>2
<1>4. \A k \in 1 .. p - 1 :
        (\E j \in 1 .. l : results[j] = Report(t, k)) => Shown(t, k)'
  <2> SUFFICES ASSUME NEW k \in 1 .. p - 1, NEW j \in 1 .. l, results[j] = Report(t, k)
               PROVE  Shown(t, k)'
    OBVIOUS
  <2>1. Shown(t, k)
    BY <1>1 DEF ReportInv
  <2>2. k \in 1 .. n /\ k # p
    BY <1>1
  <2> QED
    BY <1>2, <2>1, <2>2
<1>5. CASE Len(script) > 1
  <2>1. /\ script' = Tail(script) /\ UNCHANGED <<todo, phase, results>>
        /\ Position' = p /\ caseId' = c
    BY <1>1, <1>5 DEF advance, Position, caseId
  <2>2. PICK s : s = Tail(script) /\ s[Len(s)] = script[Len(script)]
    <3> DEFINE Calls == ScriptCalls(AttemptedAction(tool, Position))
    <3>1. script \in Seq(Calls)
      BY DEF EvaluationInv, ProgressInv
    <3> HIDE DEF Calls
    <3>2. Tail(script)[Len(Tail(script))] = script[Len(script)]
      <4>1. /\ Len(Tail(script)) = Len(script) - 1
            /\ \A i \in 1 .. Len(script) - 1 : Tail(script)[i] = script[i + 1]
        BY <1>5, <3>1
      <4>2. Len(script) - 1 \in 1 .. Len(script) - 1 /\ (Len(script) - 1) + 1 = Len(script)
        BY <1>1, <1>5
      <4> QED
        BY <4>1, <4>2
    <3> QED
      BY <3>2
  <2>3. Leads(m, s, b) /\ Verdict(t, p) = Outcome(s[Len(s)], b) /\ script' = s
    BY <1>1, <2>1, <2>2
  <2>4. (\E a, z \in Situation :
           /\ Agrees(caseId, a)
           /\ Leads(a, script, z)
           /\ Verdict(tool, Position) = Outcome(script[Len(script)], z))'
    BY <2>1, <2>3
  <2>5. (\A k \in 1 .. Len(Plan[tool]) : k > Position => Agrees(Plan[tool][k].id, Absent))'
    BY <1>1, <1>3, <2>1
  <2>6. RunningInv'
    BY <2>4, <2>5 DEF RunningInv
  <2>7. AccountInv'
    BY <1>1, <2>1 DEF AccountInv
  <2>8. ReportInv'
    BY <1>1, <1>4, <2>1 DEF ReportInv
  <2> QED
    BY <2>1, <2>6, <2>7, <2>8 DEF Goal
<1>6. CASE Len(script) = 1
  <2> DEFINE r == [id |-> caseId, terminalState |-> terminalState(caseId)]
  <2>1. /\ results' = Append(results, r) /\ nextScript
    BY <1>6 DEF advance
  <2>2. Position' = p + 1
    BY <1>1, <2>1, NextScriptMoves DEF EvaluationInv
  <2>3. phase' = "running" => RunningInv'
    BY <1>1, <1>3, <2>1, NextScriptRuns
  <2>4. /\ m = b /\ script[Len(script)] = Call
        /\ Call \in ScriptCalls(AttemptedAction(tool, Position))
    <3> DEFINE Calls == ScriptCalls(AttemptedAction(tool, Position))
    <3>1. script \in Seq(Calls) /\ Call \in Calls
      BY AtPosition DEF EvaluationInv, ProgressInv
    <3> HIDE DEF Calls
    <3>2. Len(Tail(script)) = 0 /\ script[1] = Head(script)
      <4>1. script # <<>>
        BY DEF EvaluationInv, ProgressInv
      <4> QED
        BY <1>6, <3>1, <4>1
    <3>3. m = b
      BY <3>2, LeadsNowhere
    <3> QED
      BY <1>6, <3>1, <3>2, <3>3 DEF Call, Calls
  <2>5. Exists(c)' /\ cases'[c].currentState = b.currentState
    BY <2>4 DEF Agrees, Fits
  <2>6. r = Report(t, p)
    <3>1. terminalState(caseId) = Outcome(Call, b)
      BY <2>5 DEF terminalState, Outcome
    <3>2. terminalState(caseId) = Verdict(t, p)
      BY <1>1, <2>4, <3>1
    <3> QED
      BY <1>1, <3>2 DEF Report
  <2>7. Shown(t, p)'
    <3>1. Verdict(t, p) # "blocked" => Verdict(t, p) = b.currentState
      <4>1. Call.call = "finalize" => Call.override \in {Undefined, "blocked"}
        BY <2>4, CallTypes
      <4> QED
        BY <1>1, <2>4, <4>1 DEF Outcome
    <3>2. PICK v : v = Verdict(t, p)
      OBVIOUS
    <3>3. (v # "blocked" => Exists(c) /\ StateOf(c) = v)'
      BY <2>5, <3>1, <3>2 DEF StateOf
    <3> QED
      BY <1>1, <3>2, <3>3 DEF Shown
  <2> HIDE DEF r
  <2>8. AccountInv'
    <3>1. Accounts(t, Append(results, Report(t, p)), errors, failures, p + 1)
      BY <1>1, AccountsResult DEF AccountInv
    <3> QED
      BY <2>1, <2>2, <2>6, <3>1 DEF AccountInv
  <2>9. ReportInv'
    <3>1. results \in Seq({Report(t, k) : k \in 1 .. n}) /\ Report(t, p) \in {Report(t, k) : k \in 1 .. n}
      BY <1>1 DEF AccountInv, Accounts
    <3>2. /\ Len(results') = l + 1
          /\ \A j \in 1 .. l : results'[j] = results[j]
          /\ results'[l + 1] = Report(t, p)
      BY <1>1, <2>1, <2>6, <3>1
    <3>3. ASSUME NEW k \in 1 .. p, NEW j \in 1 .. l + 1, results'[j] = Report(t, k)
          PROVE  Shown(t, k)'
      <4>1. CASE k = p
        BY <2>7, <4>1
      <4>2. CASE k # p
        <5>1. k \in 1 .. p - 1 /\ k \in 1 .. n
          BY <1>1, <4>2
        <5>2. Plan[t][k].id # Plan[t][p].id
          BY <1>1, <4>2, <5>1, PlanConcludes
        <5>3. Report(t, k) # Report(t, p)
          BY <5>2 DEF Report
        <5>4. j # l + 1
          BY <3>2, <3>3, <5>3
        <5>5. j \in 1 .. l
          BY <5>4
        <5> QED
          BY <1>4, <3>2, <3>3, <5>1, <5>5
      <4> QED
        BY <4>1, <4>2
    <3>4. (p + 1) - 1 = p
      BY <1>1
    <3> QED
      BY <2>2, <3>2, <3>3, <3>4 DEF ReportInv
  <2> QED
    BY <2>3, <2>8, <2>9 DEF Goal
<1>7. PICK length \in Nat \ {0} : length = Len(script)
  BY <1>1
<1>8. length > 1 \/ length = 1
  OBVIOUS
<1> QED
  BY <1>5, <1>6, <1>7, <1>8

\* A call of the script has failed for a reason outside the system.
LEMMA ErrorKeeps ==
  ASSUME EvaluationInv, RoomForScripts, phase = "running",
         NEW t \in {"suite", "pack"}, tool = t, tool' = t,
         AccountInv, ReportInv, giveUp, failures' = failures + 1,
         \A k \in 1 .. Len(Plan[t]) : k # Position =>
           /\ Shown(t, k) => Shown(t, k)'
           /\ Agrees(Plan[t][k].id, Absent) => Agrees(Plan[t][k].id, Absent)',
         \A k \in 1 .. Len(Plan[t]) : k > Position => Agrees(Plan[t][k].id, Absent)
  PROVE  (phase' = "running" => RunningInv') /\ AccountInv' /\ ReportInv'
<1> DEFINE Goal == (phase' = "running" => RunningInv') /\ AccountInv' /\ ReportInv'
<1> SUFFICES Goal
  OBVIOUS
<1> HIDE DEF Goal
<1>1. PICK p \in Nat, n \in Nat, l \in Nat, f \in Nat :
        /\ p = Position /\ n = Len(Plan[t]) /\ l = Len(results) /\ f = failures
        /\ p \in 1 .. n
        /\ caseId = Plan[t][p].id
  <2>1. Len(results) \in Nat
    BY DEF AccountInv, Accounts
  <2> QED
    BY <2>1, AtPosition, PlansTyped DEF EvaluationInv, ProgressInv
<1>2. \A k \in 1 .. n : k # p =>
        /\ Shown(t, k) => Shown(t, k)'
        /\ Agrees(Plan[t][k].id, Absent) => Agrees(Plan[t][k].id, Absent)'
  BY <1>1
<1>3. \A k \in 1 .. n : k > p => Agrees(Plan[t][k].id, Absent)'
  BY <1>1, <1>2
<1>4. \A k \in 1 .. p - 1 :
        (\E j \in 1 .. l : results[j] = Report(t, k)) => Shown(t, k)'
  <2> SUFFICES ASSUME NEW k \in 1 .. p - 1, NEW j \in 1 .. l, results[j] = Report(t, k)
               PROVE  Shown(t, k)'
    OBVIOUS
  <2>1. Shown(t, k)
    BY <1>1 DEF ReportInv
  <2>2. k \in 1 .. n /\ k # p
    BY <1>1
  <2> QED
    BY <1>2, <2>1, <2>2
<1>5. results' = results
  BY DEF giveUp
<1>6. CASE t = "suite"
  <2>1. errors' = Append(errors, caseId) /\ nextScript
    BY <1>6 DEF giveUp
  <2>2. Position' = p + 1
    BY <1>1, <2>1, NextScriptMoves DEF EvaluationInv
  <2>3. phase' = "running" => RunningInv'
    BY <1>1, <1>3, <2>1, NextScriptRuns
  <2>4. AccountInv'
    <3>1. Accounts(t, results, Append(errors, Plan[t][p].id), f + 1, p + 1)
      BY <1>1, <1>6, AccountsError DEF AccountInv
    <3> QED
      BY <1>1, <1>5, <2>1, <2>2, <3>1 DEF AccountInv
  <2>5. \A j \in 1 .. l : results[j] # Report(t, p)
    <3> SUFFICES ASSUME NEW j \in 1 .. l PROVE results[j] # Report(t, p)
      OBVIOUS
    <3>1. PICK k \in 1 .. p - 1 : results[j] = Report(t, k)
      BY <1>1 DEF AccountInv, Accounts
    <3>2. k \in 1 .. n /\ k # p
      BY <1>1
    <3>3. Plan[t][k].id # Plan[t][p].id
      BY <1>1, <3>2, PlanConcludes
    <3> QED
      BY <3>1, <3>3 DEF Report
  <2>6. ReportInv'
    <3>1. (p + 1) - 1 = p
      BY <1>1
    <3>2. \A k \in 1 .. p :
            (\E j \in 1 .. l : results[j] = Report(t, k)) => Shown(t, k)'
      <4>1. \A k \in 1 .. p : k = p \/ k \in 1 .. p - 1
        BY <1>1
      <4> QED
        BY <1>4, <2>5, <4>1
    <3> QED
      BY <1>1, <1>5, <2>2, <3>1, <3>2 DEF ReportInv
  <2> QED
    BY <2>3, <2>4, <2>6 DEF Goal
<1>7. CASE t = "pack"
  <2>1. phase' = "aborted" /\ UNCHANGED <<errors, todo, script>>
    BY <1>7 DEF giveUp
  <2>2. Position' = p
    BY <1>1, <2>1 DEF Position
  <2>3. AccountInv'
    <3>1. Accounts(t, results, errors, f, p)
      BY <1>1 DEF AccountInv
    <3>2. Accounts(t, results, errors, f + 1, p)
      <4>1. Len(errors) \in Nat /\ Len(errors) <= f
        BY <3>1 DEF Accounts
      <4>2. Len(errors) <= f + 1
        BY <4>1
      <4> QED
        BY <3>1, <4>2 DEF Accounts
    <3> QED
      BY <1>1, <1>5, <2>1, <2>2, <3>2 DEF AccountInv
  <2>4. ReportInv'
    BY <1>1, <1>4, <1>5, <2>2 DEF ReportInv
  <2> QED
    BY <2>1, <2>3, <2>4 DEF Goal
<1> QED
  BY <1>6, <1>7

\* Every step keeps it, and leads every case to what is going to be reported.
LEMMA ScriptInvNext ==
  ASSUME EvaluationInv, ScriptInv, [EvaluationNext]_evaluationVars
  PROVE  ScriptInv'
<1> SUFFICES ASSUME RoomForScripts, tool' # "seeding"
             PROVE  /\ phase' = "running" => RunningInv'
                    /\ AccountInv' /\ ReportInv' /\ TrailInv'
  BY DEF ScriptInv
<1>1. tool' = tool
  BY DEF EvaluationNext, Proceed, performCall, expectScenarioFailure, failCall,
     submitTransaction, nextRound, seedAgain, evaluationVars, progress
<1>2. PICK t \in {"suite", "pack"} : tool = t
  BY <1>1 DEF EvaluationInv, ProgressInv
<1>3. AccountInv /\ ReportInv /\ TrailInv /\ (phase = "running" => RunningInv)
  BY <1>2 DEF ScriptInv
<1>4. ASSUME phase = "running"
      PROVE  \E c \in ScriptedCases, a \in Situation, m \in Situation, b \in Situation :
               /\ c = caseId /\ Agrees(c, a)
               /\ Takes(a, Call, m) /\ Leads(m, Tail(script), b)
               /\ Verdict(t, Position) = Outcome(script[Len(script)], b)
  <2>1. PICK a \in Situation, b \in Situation :
          /\ Agrees(caseId, a) /\ Leads(a, script, b)
          /\ Verdict(t, Position) = Outcome(script[Len(script)], b)
    BY <1>2, <1>3, <1>4 DEF RunningInv
  <2> DEFINE Calls == ScriptCalls(AttemptedAction(tool, Position))
  <2>2. script \in Seq(Calls) /\ script # <<>> /\ caseId \in ScriptedCases
    BY <1>4, AtPosition DEF EvaluationInv, ProgressInv
  <2> HIDE DEF Calls
  <2>3. PICK m \in Situation : Takes(a, Head(script), m) /\ Leads(m, Tail(script), b)
    BY <2>1, <2>2, LeadsFirst
  <2> QED
    BY <2>1, <2>2, <2>3 DEF Call
<1>5. ASSUME phase = "running"
      PROVE  /\ Call \in ScriptCalls(AttemptedAction(tool, Position))
             /\ caseId \in ScriptedCases
             /\ ChaincodeInv /\ MaxAuditSequence >= 1
  BY <1>5, AtPosition, CaseContractAssumption DEF EvaluationInv, LedgerInv, RoomForScripts
<1>6. ASSUME phase = "running", Effect(caseId, Call) \/ UNCHANGED chaincodeVars
      PROVE  /\ \A k \in 1 .. Len(Plan[t]) : k # Position =>
                  /\ Shown(t, k) => Shown(t, k)'
                  /\ Agrees(Plan[t][k].id, Absent) => Agrees(Plan[t][k].id, Absent)'
             /\ \A k \in 1 .. Len(Plan[t]) :
                  k > Position => Agrees(Plan[t][k].id, Absent)
  BY <1>2, <1>3, <1>6, KeptElsewhere DEF RunningInv
<1>7. CASE performCall
  <2>1. /\ phase = "running" /\ Call.call # "attempt" /\ Effect(caseId, Call)
        /\ advance /\ UNCHANGED <<errors, failures>>
    BY <1>7 DEF performCall
  <2>2. PICK c \in ScriptedCases, a \in Situation, m \in Situation, b \in Situation :
          /\ c = caseId /\ Agrees(c, a)
          /\ Takes(a, Call, m) /\ Leads(m, Tail(script), b)
          /\ Verdict(t, Position) = Outcome(script[Len(script)], b)
    BY <1>4, <2>1
  <2>3. Agrees(c, m)' /\ m.currentState # "absent"
    BY <1>5, <2>1, <2>2, EffectTakes
  <2>4. (phase' = "running" => RunningInv') /\ AccountInv' /\ ReportInv'
    BY <1>1, <1>2, <1>3, <1>6, <2>1, <2>2, <2>3, AdvanceKeeps
  <2>5. TrailInv'
    BY <1>1, <1>2, <1>3, <2>1, TrailKept
  <2> QED
    BY <2>4, <2>5
<1>8. CASE expectScenarioFailure
  <2>1. /\ phase = "running" /\ Call.call = "attempt" /\ UNCHANGED chaincodeVars
        /\ advance /\ UNCHANGED <<errors, failures>>
    BY <1>8 DEF expectScenarioFailure
  <2>2. PICK c \in ScriptedCases, a \in Situation, m \in Situation, b \in Situation :
          /\ c = caseId /\ Agrees(c, a)
          /\ Takes(a, Call, m) /\ Leads(m, Tail(script), b)
          /\ Verdict(t, Position) = Outcome(script[Len(script)], b)
    BY <1>4, <2>1
  <2>3. m = a /\ m.currentState # "absent"
    BY <2>1, <2>2, CallsDistinct DEF Takes
  <2>4. Agrees(c, m)'
    BY <2>1, <2>2, <2>3 DEF chaincodeVars, vars, Agrees, Exists, Fits, HasDocument
  <2>5. (phase' = "running" => RunningInv') /\ AccountInv' /\ ReportInv'
    BY <1>1, <1>2, <1>3, <1>6, <2>1, <2>2, <2>3, <2>4, AdvanceKeeps
  <2>6. TrailInv'
    BY <1>1, <1>2, <1>3, <2>1, TrailKept
  <2> QED
    BY <2>5, <2>6
<1>9. ASSUME NEW committed \in BOOLEAN, failCall(committed)
      PROVE  /\ phase' = "running" => RunningInv'
             /\ AccountInv' /\ ReportInv' /\ TrailInv'
  <2>1. /\ phase = "running" /\ giveUp
        /\ Effect(caseId, Call) \/ UNCHANGED chaincodeVars
        /\ failures' = failures + IF FailsByItself THEN 0 ELSE 1
    BY <1>9 DEF failCall
  <2>2. PICK c \in ScriptedCases, a \in Situation, m \in Situation, b \in Situation :
          /\ c = caseId /\ Agrees(c, a)
          /\ Takes(a, Call, m) /\ Leads(m, Tail(script), b)
          /\ Verdict(t, Position) = Outcome(script[Len(script)], b)
    BY <1>4, <2>1
  <2>3. /\ Call.call # "attempt" => Accepts(caseId, Call)
        /\ Call.call = "attempt" =>
             /\ Call.expected \in refusalReasons(cases[caseId], Call)
             /\ ~AcceptsTransition(caseId, Call)
    BY <1>5, <2>1, <2>2, TakesAccepts
  <2>4. failures' = failures + 1
    BY <2>1, <2>3 DEF FailsByItself
  <2>5. \/ Effect(caseId, Call) /\ Call.call # "attempt"
        \/ UNCHANGED chaincodeVars
    <3>1. Effect(caseId, Call) /\ Call.call = "attempt" => AcceptsTransition(caseId, Call)
      BY <1>5, <2>1, CasesOfEffect
    <3> QED
      BY <2>1, <2>3, <3>1
  <2>6. (phase' = "running" => RunningInv') /\ AccountInv' /\ ReportInv'
    BY <1>1, <1>2, <1>3, <1>6, <2>1, <2>4, ErrorKeeps
  <2>7. TrailInv'
    BY <1>1, <1>2, <1>3, <2>1, <2>5, TrailKept
  <2> QED
    BY <2>6, <2>7
<1>10. ~nextRound /\ ~seedAgain /\ \A worker \in DOMAIN sent : ~submitTransaction(worker)
  BY <1>2 DEF nextRound, seedAgain, submitTransaction, InRounds
<1>11. CASE UNCHANGED evaluationVars
  <2>1. UNCHANGED <<cases, documents, events, tool, phase, todo, script, results,
                    errors, failures>>
    BY <1>11 DEF evaluationVars, chaincodeVars, vars, progress
  <2>2. phase' = "running" => RunningInv'
    BY <1>3, <2>1 DEF RunningInv, Position, caseId, Agrees, Exists, Fits, HasDocument
  <2>3. AccountInv'
    BY <1>3, <2>1 DEF AccountInv, Position
  <2>4. ReportInv'
    BY <1>3, <2>1 DEF ReportInv, Position, Shown, Exists, StateOf
  <2>5. TrailInv'
    BY <1>3, <2>1 DEF TrailInv, Trail
  <2> QED
    BY <2>2, <2>3, <2>4, <2>5
<1> QED
  BY <1>7, <1>8, <1>9, <1>10, <1>11 DEF EvaluationNext, Proceed

-----------------------------------------------------------------------------
(* The reports. *)

\* A report that is out covers every script of the tool.
LEMMA PublishedAccounts ==
  ASSUME EvaluationInv, ScriptInv, RoomForScripts, phase = "published",
         NEW t \in {"suite", "pack"}, tool = t
  PROVE  /\ Accounts(t, results, errors, failures, Len(Plan[t]) + 1)
         /\ \A k \in 1 .. Len(Plan[t]) :
              (\E j \in 1 .. Len(results) : results[j] = Report(t, k)) => Shown(t, k)
         /\ TrailInv
<1>1. AccountInv /\ ReportInv /\ TrailInv
  BY DEF ScriptInv
<1>2. Len(Plan[t]) \in Nat /\ todo = <<>>
  BY PlansTyped DEF EvaluationInv, ProgressInv
<1>3. Position = Len(Plan[t]) + 1 /\ Position - 1 = Len(Plan[t])
  BY <1>2 DEF Position
<1> QED
  BY <1>1, <1>3 DEF AccountInv, ReportInv

\* The report of the suite is true.
LEMMA SuiteReported ==
  ASSUME EvaluationInv, ScriptInv, RoomForScripts, phase = "published",
         tool = "suite"
  PROVE  SuiteTruthful /\ AttemptsTraceless
<1> DEFINE t == "suite"
<1>1. /\ Accounts(t, results, errors, failures, Len(Plan[t]) + 1)
      /\ \A k \in 1 .. Len(Plan[t]) :
           (\E j \in 1 .. Len(results) : results[j] = Report(t, k)) => Shown(t, k)
      /\ TrailInv
  BY PublishedAccounts
<1>2. /\ Plan[t] = EVALUATION_SCENARIOS /\ Len(Plan[t]) = 9
      /\ DOMAIN EVALUATION_SCENARIOS = 1 .. 9
      /\ (Len(Plan[t]) + 1) - 1 = 9
  BY ScenarioScripts DEF Plan
<1>3. \A k \in 1 .. 9 : Report(t, k) = [id |-> EVALUATION_SCENARIOS[k].id,
                                        terminalState |-> expectedTerminalState[k]]
  BY <1>2 DEF Report, Verdict
<1>4. /\ DOMAIN results = 1 .. Len(results) /\ DOMAIN errors = 1 .. Len(errors)
  BY <1>1 DEF Accounts
<1>5. /\ \A j \in 1 .. Len(results) : \E k \in 1 .. 9 : results[j] = Report(t, k)
      /\ \A j \in 1 .. Len(errors) : \E k \in 1 .. 9 :
           errors[j] = EVALUATION_SCENARIOS[k].id
      /\ \A k \in 1 .. 9 :
           \/ \E j \in 1 .. Len(results) : results[j] = Report(t, k)
           \/ \E j \in 1 .. Len(errors) : errors[j] = EVALUATION_SCENARIOS[k].id
      /\ Len(results) + Len(errors) = 9
      /\ Len(errors) <= failures
  BY <1>1, <1>2 DEF Accounts
<1>0. /\ \A k \in 1 .. 9 : /\ Report(t, k).id = EVALUATION_SCENARIOS[k].id
                           /\ Report(t, k).terminalState = expectedTerminalState[k]
                           /\ Verdict(t, k) = expectedTerminalState[k]
      /\ \A i, k \in 1 .. 9 :
           EVALUATION_SCENARIOS[i].id = EVALUATION_SCENARIOS[k].id => i = k
      /\ \A k \in 1 .. 9 :
           (\E j \in 1 .. Len(results) : results[j] = Report(t, k)) => Shown(t, k)
  BY <1>1, <1>2, <1>3, CasesDistinct DEF Verdict
<1> DEFINE N == Len(results)
           M == Len(errors)
           id(k) == EVALUATION_SCENARIOS[k].id
<1> HIDE DEF t
<1>6. {r.id : r \in Range(results)} \cup Range(errors)
        = {s.id : s \in Range(EVALUATION_SCENARIOS)}
  <2>1. {r.id : r \in Range(results)} = {results[j].id : j \in 1 .. N}
    BY <1>4 DEF Range
  <2>2. Range(errors) = {errors[j] : j \in 1 .. M}
    BY <1>4 DEF Range
  <2>3. {s.id : s \in Range(EVALUATION_SCENARIOS)} = {id(k) : k \in 1 .. 9}
    BY <1>2 DEF Range
  <2>0. \A k \in 1 .. 9 : Report(t, k).id = id(k)
    BY <1>0
  <2>4. /\ \A j \in 1 .. N : \E k \in 1 .. 9 : results[j].id = id(k)
        /\ \A j \in 1 .. M : \E k \in 1 .. 9 : errors[j] = id(k)
    <3>1. ASSUME NEW j \in 1 .. N PROVE \E k \in 1 .. 9 : results[j].id = id(k)
      <4>1. PICK k \in 1 .. 9 : results[j] = Report(t, k)
        BY <1>5
      <4> QED
        BY <2>0, <4>1
    <3> QED
      BY <1>5, <3>1
  <2>5. ASSUME NEW k \in 1 .. 9
        PROVE  \/ \E j \in 1 .. N : results[j].id = id(k)
               \/ \E j \in 1 .. M : errors[j] = id(k)
    <3>1. CASE \E j \in 1 .. N : results[j] = Report(t, k)
      <4>1. PICK j \in 1 .. N : results[j] = Report(t, k)
        BY <3>1
      <4> QED
        BY <2>0, <4>1
    <3> QED
      BY <1>5, <3>1
  <2> HIDE DEF N, M, id
  <2>6. {results[j].id : j \in 1 .. N} \cup {errors[j] : j \in 1 .. M}
          = {id(k) : k \in 1 .. 9}
    BY <2>4, <2>5
  <2> QED
    BY <2>1, <2>2, <2>3, <2>6
<1>7. ASSUME NEW j \in 1 .. Len(results), NEW i \in 1 .. 9,
             EVALUATION_SCENARIOS[i].id = results[j].id
      PROVE  /\ results[j].terminalState = expectedTerminalState[i]
             /\ results[j].terminalState # "blocked" =>
                  StateOf(results[j].id) = results[j].terminalState
  <2>1. PICK k \in 1 .. 9 : results[j] = Report(t, k)
    BY <1>5
  <2>2. results[j].id = id(k) /\ results[j].terminalState = expectedTerminalState[k]
    BY <1>0, <2>1
  <2>3. k = i
    BY <1>0, <1>7, <2>2
  <2>4. Shown(t, k)
    BY <1>0, <2>1
  <2>5. /\ Verdict(t, k) = expectedTerminalState[k]
        /\ Plan[t][k].id = results[j].id
    BY <1>0, <1>2, <2>2
  <2> QED
    BY <2>2, <2>3, <2>4, <2>5 DEF Shown
<1>8. SuiteTruthful
  <2>1. \A r \in Range(results), i \in DOMAIN EVALUATION_SCENARIOS :
          EVALUATION_SCENARIOS[i].id = r.id =>
            /\ r.terminalState = expectedTerminalState[i]
            /\ r.terminalState # "blocked" => StateOf(r.id) = r.terminalState
    <3> SUFFICES ASSUME NEW r \in Range(results), NEW i \in 1 .. 9,
                        EVALUATION_SCENARIOS[i].id = r.id
                 PROVE  /\ r.terminalState = expectedTerminalState[i]
                        /\ r.terminalState # "blocked" =>
                             StateOf(r.id) = r.terminalState
      BY <1>2
    <3>1. PICK j \in 1 .. Len(results) : r = results[j]
      BY <1>4 DEF Range
    <3> QED
      BY <1>7, <3>1
  <2>2. Len(results) + Len(errors) = Len(EVALUATION_SCENARIOS)
    BY <1>2, <1>5
  <2> QED
    BY <1>5, <1>6, <2>1, <2>2 DEF SuiteTruthful
<1>9. ASSUME NEW k \in 1 .. 9, NEW i \in DOMAIN EVALUATION_SCENARIOS[k].script,
             EVALUATION_SCENARIOS[k].script[i].call = "attempt",
             NEW e \in Trail(EVALUATION_SCENARIOS[k].id)
      PROVE  e.actionType # EVALUATION_SCENARIOS[k].script[i].rule.action
  <2>1. EVALUATION_SCENARIOS[k].script \in Seq(ScriptCalls(AttemptedActions[k]))
    BY ScenarioScripts DEF ScriptsOf
  <2> HIDE DEF ScriptCalls
  <2>2. EVALUATION_SCENARIOS[k].script[i] \in ScriptCalls(AttemptedActions[k])
    BY <2>1
  <2>3. EVALUATION_SCENARIOS[k].script[i].rule.action = AttemptedActions[k]
    BY <1>9, <2>2, CallTypes
  <2> QED
    BY <1>1, <1>2, <1>9, <2>3 DEF TrailInv, t
<1>10. AttemptsTraceless
  BY <1>2, <1>9 DEF AttemptsTraceless, Range
<1> QED
  BY <1>8, <1>10

\* The samples of the pack are what they are taken for.
LEMMA PackReported ==
  ASSUME EvaluationInv, ScriptInv, RoomForScripts, phase = "published",
         tool = "pack"
  PROVE  PackTruthful
<1> DEFINE t == "pack"
<1>1. /\ Accounts(t, results, errors, failures, Len(Plan[t]) + 1)
      /\ \A k \in 1 .. Len(Plan[t]) :
           (\E j \in 1 .. Len(results) : results[j] = Report(t, k)) => Shown(t, k)
  BY PublishedAccounts
<1>2. /\ Plan[t] = ScreenshotSamples /\ Len(Plan[t]) = 8
      /\ DOMAIN ScreenshotSamples = 1 .. 8
      /\ (Len(Plan[t]) + 1) - 1 = 8
  BY SampleScripts DEF Plan
<1>3. /\ errors = <<>> /\ Len(results) + Len(errors) = 8
      /\ \A j \in 1 .. Len(results) : results[j] = Report(t, j)
  BY <1>1, <1>2 DEF Accounts
<1>4. Len(results) = 8
  BY <1>1, <1>3 DEF Accounts
<1>5. \A i \in 1 .. 8 : ScreenshotSamples[i].shows # "blocked"
  BY DEF ScreenshotSamples
<1>6. ASSUME NEW i \in 1 .. 8
      PROVE  /\ results[i].id = ScreenshotSamples[i].id
             /\ results[i].terminalState = ScreenshotSamples[i].shows
             /\ StateOf(results[i].id) = ScreenshotSamples[i].shows
  <2>1. results[i] = Report(t, i) /\ Shown(t, i)
    BY <1>1, <1>2, <1>3, <1>4
  <2> QED
    BY <1>2, <1>5, <2>1 DEF Report, Verdict, Shown
<1> QED
  BY <1>2, <1>6 DEF PackTruthful

\* So is every report that is out.
LEMMA ReportsHold ==
  ASSUME EvaluationInv, SeedingInv, ScriptInv, RoomForScripts
  PROVE  ReportsTruthful
<1>1. phase = "published" /\ tool = "suite" => SuiteTruthful /\ AttemptsTraceless
  BY SuiteReported
<1>2. phase = "published" /\ tool = "pack" => PackTruthful
  BY PackReported
<1>3. phase = "published" /\ tool = "seeding" /\ RoundsNotBegun => SeedingTruthful
  BY DEF SeedingInv, Counted, SeedingTruthful, CasesThere, DocumentsThere
<1> QED
  BY <1>1, <1>2, <1>3 DEF ReportsTruthful

\* Whatever a tool publishes is true of the ledger: the suite's and the pack's
\* results, the blocked attempts, the seeding's counts, although calls fail with
\* or without effect and seedings are started again.  The model's bound on the
\* trail of a case has to leave room for the longest script (scenario-runner.ts,
\* prepare-screenshot-pack.ts, benchmark-seed.service.ts).
THEOREM ReportsCorrect ==
  EvaluationSpec => [](RoomForScripts => ReportsTruthful)
<1> DEFINE Inv == EvaluationInv /\ SeedingInv /\ ScriptInv
<1>1. EvaluationInit => Inv
  BY EvaluationInvInit, SeedingInvInit, ScriptInvInit
<1>2. Inv /\ [EvaluationNext]_evaluationVars => Inv'
  BY EvaluationInvNext, SeedingInvNext, ScriptInvNext
<1>3. Inv => (RoomForScripts => ReportsTruthful)
  BY ReportsHold
<1> HIDE DEF Inv
<1> QED
  BY <1>1, <1>2, <1>3, PTL DEF EvaluationSpec
=============================================================================
