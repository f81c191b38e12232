-------------------------- MODULE CaseRecordProofs --------------------------
(***************************************************************************)
(* A draft satisfies the agreements of CaseRecords, and every transition   *)
(* that evaluateTransition allows preserves them.  The lemmas are about    *)
(* one record, so they serve every module that stores records.             *)
(***************************************************************************)
EXTENDS CaseRecords, TLAPS

\* What every stored record satisfies, and every transition preserves.
RecordInv(c) ==
  /\ c \in AssuranceCase
  /\ Resumable(c)
  /\ BaselineKept(c)
  /\ IssuanceConsistent(c)
  /\ Endorsed(c)
  /\ Ungranted(c)
  /\ c.auditSequenceNumber >= 1

-----------------------------------------------------------------------------
(* A transition that evaluateTransition allows preserves RecordInv.  One   *)
(* lemma per conjunct, one step per rule of the table.                     *)

\* Every transition yields a record of the declared shape (applyTransition):
\* in particular the two resolved targets are workflow states.
LEMMA TypedPreserved ==
  ASSUME NEW c \in AssuranceCase, NEW actor \in UserClaims, NEW types,
         NEW ids \in SUBSET DocumentIds, NEW justified \in BOOLEAN,
         NEW rule \in TRANSITIONS,
         evaluateTransition(c, rule, actor, types, justified)
  PROVE  applyTransition(c, rule, actor, ids) \in AssuranceCase
<1> USE DEF evaluateTransition, Rule, AssuranceCase,
            applyTransition, nextState, nextSubstate, ReviewLanes,
            InForceStates, nextDomesticStatus, nextCoordinationStatus,
            nextForeignStatus, nextActiveDocuments, nextIssuanceStatus, nextVersion,
            nextReviewMode, nextBaseState, ClosesAmendment,
            AmendmentInitiations, WorkflowStates, Undefined, UserClaims,
            RecordAllows
<1>1. CASE rule = SubmitCaseRule
  BY <1>1 DEF SubmitCaseRule
<1>2. CASE rule = RecordDomesticReviewRule
  BY <1>2 DEF RecordDomesticReviewRule
<1>3. CASE rule = RequestMoreInformationRule
  BY <1>3 DEF RequestMoreInformationRule
<1>4. CASE rule = RespondToInformationRequestRule
  BY <1>4 DEF RespondToInformationRequestRule
<1>5. CASE rule = ForwardToCoordinationRule
  BY <1>5 DEF ForwardToCoordinationRule
<1>6. CASE rule = ForwardToForeignAuthorityRule
  BY <1>6 DEF ForwardToForeignAuthorityRule
<1>7. CASE rule = RecordForeignReviewRule
  BY <1>7 DEF RecordForeignReviewRule
<1>8. CASE rule = ApproveCaseRule
  BY <1>8 DEF ApproveCaseRule
<1>9. CASE rule = RejectCaseRule
  BY <1>9 DEF RejectCaseRule
<1>10. CASE rule = InitiateNonSubstantiveAmendmentRule
  BY <1>10 DEF InitiateNonSubstantiveAmendmentRule
<1>11. CASE rule = InitiateSubstantiveAmendmentRule
  BY <1>11 DEF InitiateSubstantiveAmendmentRule
<1>12. CASE rule = IssueAssuranceRule
  BY <1>12 DEF IssueAssuranceRule
<1>13. CASE rule = AmendAssuranceRule
  BY <1>13 DEF AmendAssuranceRule
<1>14. CASE rule = RejectAmendmentRule
  BY <1>14 DEF RejectAmendmentRule
<1>15. CASE rule = RevokeAssuranceRule
  BY <1>15 DEF RevokeAssuranceRule
<1>16. CASE rule = CloseCaseRule
  BY <1>16 DEF CloseCaseRule
<1> QED BY <1>1, <1>2, <1>3, <1>4, <1>5, <1>6, <1>7, <1>8, <1>9, <1>10,
           <1>11, <1>12, <1>13, <1>14, <1>15, <1>16
  DEF TRANSITIONS

\* Only an information request leaves a lane to resume, and only answering it
\* (or being blocked from anything else) clears it (currentSubstate).
LEMMA ResumablePreserved ==
  ASSUME NEW c, RecordInv(c), NEW actor \in UserClaims, NEW types,
         NEW ids \in SUBSET DocumentIds, NEW justified \in BOOLEAN,
         NEW rule \in TRANSITIONS,
         evaluateTransition(c, rule, actor, types, justified)
  PROVE  Resumable(applyTransition(c, rule, actor, ids))
<1> USE DEF RecordInv, evaluateTransition, Rule, AssuranceCase,
            applyTransition, nextState, nextSubstate, ReviewLanes,
            InForceStates, Resumable, BaselineKept, RecordAllows
<1>1. CASE rule = SubmitCaseRule
  BY <1>1 DEF SubmitCaseRule
<1>2. CASE rule = RecordDomesticReviewRule
  BY <1>2 DEF RecordDomesticReviewRule
<1>3. CASE rule = RequestMoreInformationRule
  BY <1>3 DEF RequestMoreInformationRule
<1>4. CASE rule = RespondToInformationRequestRule
  BY <1>4 DEF RespondToInformationRequestRule
<1>5. CASE rule = ForwardToCoordinationRule
  BY <1>5 DEF ForwardToCoordinationRule
<1>6. CASE rule = ForwardToForeignAuthorityRule
  BY <1>6 DEF ForwardToForeignAuthorityRule
<1>7. CASE rule = RecordForeignReviewRule
  BY <1>7 DEF RecordForeignReviewRule
<1>8. CASE rule = ApproveCaseRule
  BY <1>8 DEF ApproveCaseRule
<1>9. CASE rule = RejectCaseRule
  BY <1>9 DEF RejectCaseRule
<1>10. CASE rule = InitiateNonSubstantiveAmendmentRule
  BY <1>10 DEF InitiateNonSubstantiveAmendmentRule
<1>11. CASE rule = InitiateSubstantiveAmendmentRule
  BY <1>11 DEF InitiateSubstantiveAmendmentRule
<1>12. CASE rule = IssueAssuranceRule
  BY <1>12 DEF IssueAssuranceRule
<1>13. CASE rule = AmendAssuranceRule
  BY <1>13 DEF AmendAssuranceRule
<1>14. CASE rule = RejectAmendmentRule
  BY <1>14 DEF RejectAmendmentRule
<1>15. CASE rule = RevokeAssuranceRule
  BY <1>15 DEF RevokeAssuranceRule
<1>16. CASE rule = CloseCaseRule
  BY <1>16 DEF CloseCaseRule
<1> QED BY <1>1, <1>2, <1>3, <1>4, <1>5, <1>6, <1>7, <1>8, <1>9, <1>10,
           <1>11, <1>12, <1>13, <1>14, <1>15, <1>16
  DEF TRANSITIONS

\* An amendment under review keeps its baseline (amendmentBaseState).
LEMMA BaselinePreserved ==
  ASSUME NEW c, RecordInv(c), NEW actor \in UserClaims, NEW types,
         NEW ids \in SUBSET DocumentIds, NEW justified \in BOOLEAN,
         NEW rule \in TRANSITIONS,
         evaluateTransition(c, rule, actor, types, justified)
  PROVE  BaselineKept(applyTransition(c, rule, actor, ids))
<1> USE DEF RecordInv, evaluateTransition, Rule, AssuranceCase,
            applyTransition, nextState, nextSubstate, ReviewLanes,
            InForceStates, nextReviewMode, nextBaseState, ClosesAmendment,
            AmendmentInitiations, Undefined, RecordAllows, BaselineKept,
            nextIssuanceStatus, nextVersion, EffectiveLane, AmendmentLanes,
            Resumable
<1>1. CASE rule = SubmitCaseRule
  BY <1>1 DEF SubmitCaseRule
<1>2. CASE rule = RecordDomesticReviewRule
  BY <1>2 DEF RecordDomesticReviewRule
<1>3. CASE rule = RequestMoreInformationRule
  BY <1>3 DEF RequestMoreInformationRule
<1>4. CASE rule = RespondToInformationRequestRule
  BY <1>4 DEF RespondToInformationRequestRule
<1>5. CASE rule = ForwardToCoordinationRule
  BY <1>5 DEF ForwardToCoordinationRule
<1>6. CASE rule = ForwardToForeignAuthorityRule
  BY <1>6 DEF ForwardToForeignAuthorityRule
<1>7. CASE rule = RecordForeignReviewRule
  BY <1>7 DEF RecordForeignReviewRule
<1>8. CASE rule = ApproveCaseRule
  BY <1>8 DEF ApproveCaseRule
<1>9. CASE rule = RejectCaseRule
  BY <1>9 DEF RejectCaseRule
<1>10. CASE rule = InitiateNonSubstantiveAmendmentRule
  BY <1>10 DEF InitiateNonSubstantiveAmendmentRule
<1>11. CASE rule = InitiateSubstantiveAmendmentRule
  BY <1>11 DEF InitiateSubstantiveAmendmentRule
<1>12. CASE rule = IssueAssuranceRule
  BY <1>12 DEF IssueAssuranceRule
<1>13. CASE rule = AmendAssuranceRule
  BY <1>13 DEF AmendAssuranceRule
<1>14. CASE rule = RejectAmendmentRule
  BY <1>14 DEF RejectAmendmentRule
<1>15. CASE rule = RevokeAssuranceRule
  BY <1>15 DEF RevokeAssuranceRule
<1>16. CASE rule = CloseCaseRule
  BY <1>16 DEF CloseCaseRule
<1> QED BY <1>1, <1>2, <1>3, <1>4, <1>5, <1>6, <1>7, <1>8, <1>9, <1>10,
           <1>11, <1>12, <1>13, <1>14, <1>15, <1>16
  DEF TRANSITIONS

\* The issuance status keeps agreeing with the state (issuanceStatus).
LEMMA IssuancePreserved ==
  ASSUME NEW c, RecordInv(c), NEW actor \in UserClaims, NEW types,
         NEW ids \in SUBSET DocumentIds, NEW justified \in BOOLEAN,
         NEW rule \in TRANSITIONS,
         evaluateTransition(c, rule, actor, types, justified)
  PROVE  IssuanceConsistent(applyTransition(c, rule, actor, ids))
<1> USE DEF RecordInv, evaluateTransition, Rule, AssuranceCase,
            applyTransition, nextState, nextSubstate, ReviewLanes,
            InForceStates, nextIssuanceStatus, nextVersion, Ungranted,
            EffectiveLane, PreApproval, IssuanceConsistent, RecordAllows,
            BaselineKept, Resumable
<1>1. CASE rule = SubmitCaseRule
  BY <1>1 DEF SubmitCaseRule
<1>2. CASE rule = RecordDomesticReviewRule
  BY <1>2 DEF RecordDomesticReviewRule
<1>3. CASE rule = RequestMoreInformationRule
  BY <1>3 DEF RequestMoreInformationRule
<1>4. CASE rule = RespondToInformationRequestRule
  BY <1>4 DEF RespondToInformationRequestRule
<1>5. CASE rule = ForwardToCoordinationRule
  BY <1>5 DEF ForwardToCoordinationRule
<1>6. CASE rule = ForwardToForeignAuthorityRule
  BY <1>6 DEF ForwardToForeignAuthorityRule
<1>7. CASE rule = RecordForeignReviewRule
  BY <1>7 DEF RecordForeignReviewRule
<1>8. CASE rule = ApproveCaseRule
  BY <1>8 DEF ApproveCaseRule
<1>9. CASE rule = RejectCaseRule
  BY <1>9 DEF RejectCaseRule
<1>10. CASE rule = InitiateNonSubstantiveAmendmentRule
  BY <1>10 DEF InitiateNonSubstantiveAmendmentRule
<1>11. CASE rule = InitiateSubstantiveAmendmentRule
  BY <1>11 DEF InitiateSubstantiveAmendmentRule
<1>12. CASE rule = IssueAssuranceRule
  BY <1>12 DEF IssueAssuranceRule
<1>13. CASE rule = AmendAssuranceRule
  BY <1>13 DEF AmendAssuranceRule
<1>14. CASE rule = RejectAmendmentRule
  BY <1>14 DEF RejectAmendmentRule
<1>15. CASE rule = RevokeAssuranceRule
  BY <1>15 DEF RevokeAssuranceRule
<1>16. CASE rule = CloseCaseRule
  BY <1>16 DEF CloseCaseRule
<1> QED BY <1>1, <1>2, <1>3, <1>4, <1>5, <1>6, <1>7, <1>8, <1>9, <1>10,
           <1>11, <1>12, <1>13, <1>14, <1>15, <1>16
  DEF TRANSITIONS

\* The endorsement keeps preceding coordination and approval
\* (domesticRegulatorStatus, foreignRegulatorStatus).
LEMMA EndorsementPreserved ==
  ASSUME NEW c, RecordInv(c), NEW actor \in UserClaims, NEW types,
         NEW ids \in SUBSET DocumentIds, NEW justified \in BOOLEAN,
         NEW rule \in TRANSITIONS,
         evaluateTransition(c, rule, actor, types, justified)
  PROVE  Endorsed(applyTransition(c, rule, actor, ids))
<1> USE DEF RecordInv, evaluateTransition, Rule, AssuranceCase,
            applyTransition, nextState, nextSubstate, ReviewLanes,
            InForceStates, nextDomesticStatus, nextForeignStatus,
            EffectiveLane, Endorsed, EndorsedLanes, Resumable, RecordAllows,
            Ungranted, PreApproval, AmendmentInitiations, BaselineKept,
            AmendmentLanes
<1>1. CASE rule = SubmitCaseRule
  BY <1>1 DEF SubmitCaseRule
<1>2. CASE rule = RecordDomesticReviewRule
  BY <1>2 DEF RecordDomesticReviewRule
<1>3. CASE rule = RequestMoreInformationRule
  BY <1>3 DEF RequestMoreInformationRule
<1>4. CASE rule = RespondToInformationRequestRule
  BY <1>4 DEF RespondToInformationRequestRule
<1>5. CASE rule = ForwardToCoordinationRule
  BY <1>5 DEF ForwardToCoordinationRule
<1>6. CASE rule = ForwardToForeignAuthorityRule
  BY <1>6 DEF ForwardToForeignAuthorityRule
<1>7. CASE rule = RecordForeignReviewRule
  BY <1>7 DEF RecordForeignReviewRule
<1>8. CASE rule = ApproveCaseRule
  BY <1>8 DEF ApproveCaseRule
<1>9. CASE rule = RejectCaseRule
  BY <1>9 DEF RejectCaseRule
<1>10. CASE rule = InitiateNonSubstantiveAmendmentRule
  BY <1>10 DEF InitiateNonSubstantiveAmendmentRule
<1>11. CASE rule = InitiateSubstantiveAmendmentRule
  BY <1>11 DEF InitiateSubstantiveAmendmentRule
<1>12. CASE rule = IssueAssuranceRule
  BY <1>12 DEF IssueAssuranceRule
<1>13. CASE rule = AmendAssuranceRule
  BY <1>13 DEF AmendAssuranceRule
<1>14. CASE rule = RejectAmendmentRule
  BY <1>14 DEF RejectAmendmentRule
<1>15. CASE rule = RevokeAssuranceRule
  BY <1>15 DEF RevokeAssuranceRule
<1>16. CASE rule = CloseCaseRule
  BY <1>16 DEF CloseCaseRule
<1> QED BY <1>1, <1>2, <1>3, <1>4, <1>5, <1>6, <1>7, <1>8, <1>9, <1>10,
           <1>11, <1>12, <1>13, <1>14, <1>15, <1>16
  DEF TRANSITIONS

\* A first review stays without approval or assurance until it is decided.
LEMMA UngrantedPreserved ==
  ASSUME NEW c, RecordInv(c), NEW actor \in UserClaims, NEW types,
         NEW ids \in SUBSET DocumentIds, NEW justified \in BOOLEAN,
         NEW rule \in TRANSITIONS,
         evaluateTransition(c, rule, actor, types, justified)
  PROVE  Ungranted(applyTransition(c, rule, actor, ids))
<1> USE DEF RecordInv, evaluateTransition, Rule, AssuranceCase,
            applyTransition, nextState, nextSubstate, ReviewLanes,
            InForceStates, EffectiveLane, Ungranted, PreApproval, Resumable,
            nextForeignStatus, nextIssuanceStatus, BaselineKept,
            RecordAllows, nextReviewMode, ClosesAmendment,
            AmendmentInitiations
<1>1. CASE rule = SubmitCaseRule
  BY <1>1 DEF SubmitCaseRule
<1>2. CASE rule = RecordDomesticReviewRule
  BY <1>2 DEF RecordDomesticReviewRule
<1>3. CASE rule = RequestMoreInformationRule
  BY <1>3 DEF RequestMoreInformationRule
<1>4. CASE rule = RespondToInformationRequestRule
  BY <1>4 DEF RespondToInformationRequestRule
<1>5. CASE rule = ForwardToCoordinationRule
  BY <1>5 DEF ForwardToCoordinationRule
<1>6. CASE rule = ForwardToForeignAuthorityRule
  BY <1>6 DEF ForwardToForeignAuthorityRule
<1>7. CASE rule = RecordForeignReviewRule
  BY <1>7 DEF RecordForeignReviewRule
<1>8. CASE rule = ApproveCaseRule
  BY <1>8 DEF ApproveCaseRule
<1>9. CASE rule = RejectCaseRule
  BY <1>9 DEF RejectCaseRule
<1>10. CASE rule = InitiateNonSubstantiveAmendmentRule
  BY <1>10 DEF InitiateNonSubstantiveAmendmentRule
<1>11. CASE rule = InitiateSubstantiveAmendmentRule
  BY <1>11 DEF InitiateSubstantiveAmendmentRule
<1>12. CASE rule = IssueAssuranceRule
  BY <1>12 DEF IssueAssuranceRule
<1>13. CASE rule = AmendAssuranceRule
  BY <1>13 DEF AmendAssuranceRule
<1>14. CASE rule = RejectAmendmentRule
  BY <1>14 DEF RejectAmendmentRule
<1>15. CASE rule = RevokeAssuranceRule
  BY <1>15 DEF RevokeAssuranceRule
<1>16. CASE rule = CloseCaseRule
  BY <1>16 DEF CloseCaseRule
<1> QED BY <1>1, <1>2, <1>3, <1>4, <1>5, <1>6, <1>7, <1>8, <1>9, <1>10,
           <1>11, <1>12, <1>13, <1>14, <1>15, <1>16
  DEF TRANSITIONS

\* A transition preserves the record invariant.
LEMMA TransitionPreserves ==
  ASSUME NEW c, RecordInv(c), NEW actor \in UserClaims, NEW types,
         NEW ids \in SUBSET DocumentIds, NEW justified \in BOOLEAN,
         NEW rule \in TRANSITIONS,
         evaluateTransition(c, rule, actor, types, justified)
  PROVE  RecordInv(applyTransition(c, rule, actor, ids))
<1>1. c.auditSequenceNumber \in Nat
  BY DEF RecordInv, AssuranceCase
<1>2. applyTransition(c, rule, actor, ids).auditSequenceNumber >= 1
  BY <1>1 DEF applyTransition
<1> QED
  BY <1>2, TypedPreserved, ResumablePreserved, BaselinePreserved,
     IssuancePreserved, EndorsementPreserved, UngrantedPreserved DEF RecordInv

\* A draft satisfies it.
LEMMA DraftPreserves == RecordInv(DraftCase)
BY DEF RecordInv, DraftCase, AssuranceCase, WorkflowStates, Undefined,
       Resumable, BaselineKept, IssuanceConsistent, InForceStates, Endorsed,
       EndorsedLanes, EffectiveLane, Ungranted, PreApproval, ReviewLanes

\* The rules of the table carry the actions of the workflow, none of them the
\* creation of a case.
LEMMA RuleActions ==
  \A rule \in TRANSITIONS :
    rule.action \in WorkflowActions /\ rule.action # "create_case"
BY DEF TRANSITIONS, WorkflowActions, Rule, SubmitCaseRule,
       RecordDomesticReviewRule, RequestMoreInformationRule,
       RespondToInformationRequestRule, ForwardToCoordinationRule,
       ForwardToForeignAuthorityRule, RecordForeignReviewRule,
       ApproveCaseRule, RejectCaseRule, InitiateNonSubstantiveAmendmentRule,
       InitiateSubstantiveAmendmentRule, IssueAssuranceRule,
       AmendAssuranceRule, RejectAmendmentRule, RevokeAssuranceRule,
       CloseCaseRule

\* The active documents are no concern of the record invariant.
LEMMA RelistedRecord ==
  ASSUME NEW c, RecordInv(c), NEW ids \in SUBSET DocumentIds
  PROVE  RecordInv([c EXCEPT !.activeDocumentIds = ids])
<1> DEFINE d == [c EXCEPT !.activeDocumentIds = ids]
<1>1. c \in AssuranceCase /\ d \in AssuranceCase
  BY DEF RecordInv, AssuranceCase
<1>2. /\ d.currentState = c.currentState
      /\ d.currentSubstate = c.currentSubstate
      /\ d.domesticRegulatorStatus = c.domesticRegulatorStatus
      /\ d.foreignRegulatorStatus = c.foreignRegulatorStatus
      /\ d.issuanceStatus = c.issuanceStatus
      /\ d.currentAssuranceVersion = c.currentAssuranceVersion
      /\ d.pendingAmendmentReviewMode = c.pendingAmendmentReviewMode
      /\ d.amendmentBaseState = c.amendmentBaseState
      /\ d.auditSequenceNumber = c.auditSequenceNumber
  BY <1>1 DEF AssuranceCase
<1> HIDE DEF d
<1>3. EffectiveLane(d) = EffectiveLane(c)
  BY <1>2 DEF EffectiveLane
<1>4. RecordInv(d)
  BY <1>1, <1>2, <1>3
  DEF RecordInv, Resumable, BaselineKept, IssuanceConsistent, Endorsed, Ungranted
<1> QED
  BY <1>4 DEF d

=============================================================================
