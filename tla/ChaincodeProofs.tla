-------------------------- MODULE ChaincodeProofs ---------------------------
(***************************************************************************)
(* The two contracts on one world state, for every set of cases, documents *)
(* and actors and every bound on the trail.                                *)
(*                                                                         *)
(* First CaseContract by itself: its invariants, what the trail says of    *)
(* the records, finality, and the refinement of AssuranceLifecycle.  The   *)
(* inductive invariant is the conjunction of the type invariant, the       *)
(* agreement of the index and the trail with the records, and RecordInv    *)
(* for every stored record.                                                *)
(*                                                                         *)
(* Then both contracts: the references, their index and the records agree, *)
(* what is proved of CaseContract holds of the deployed chaincode, whoever *)
(* calls it, and the document contract is invisible to the workflow: with  *)
(* the active documents left out, every transaction is one of CaseContract *)
(* or none.                                                                *)
(***************************************************************************)
EXTENDS Chaincode, CaseRecordProofs, FiniteSetTheorems

-----------------------------------------------------------------------------
(* CaseContract. *)


IInv ==
  /\ TypeOK
  /\ StateIndexExact
  /\ TrailGapFree
  /\ TrailReplays
  /\ \A caseId \in CaseIds : Exists(caseId) => RecordInv(cases[caseId])

-----------------------------------------------------------------------------
(* What one transaction writes. *)

\* The events recorded on a case so far.
Recorded(caseId) ==
  IF Exists(caseId) THEN cases[caseId].auditSequenceNumber ELSE 0

\* A transaction stores record d and records event e on one case.
Writes(caseId, d, e) ==
  /\ putCase(caseId, d)
  /\ appendEvent(e)
  /\ RecordInv(d)
  /\ e \in WorkflowEvent
  /\ e.caseId = caseId
  /\ e.sequence = Recorded(caseId) + 1
  /\ d.auditSequenceNumber = e.sequence
  /\ e.newState = d.currentState
  /\ IF Exists(caseId)
     THEN /\ e.previousState = cases[caseId].currentState
          /\ e.actionType # "create_case"
     ELSE e.actionType = "create_case"

\* A transaction of the contract, whoever calls it with whatever claims: the
\* creation of a case or a transition by some rule.  The callers of the other
\* modules submit transactions that Next's callers need not.
CaseStep ==
  \E caseId \in CaseIds, actor \in UserClaims :
    \/ createCase(caseId, actor)
    \/ \E rule \in TRANSITIONS, ids \in SUBSET DocumentIds,
          justified \in BOOLEAN : \E types :
         performTransition(caseId, rule, actor, types, ids, justified)

\* Every step is such a transaction.
LEMMA NextCases ==
  ASSUME Next
  PROVE  CaseStep
<1>1. PICK caseId \in CaseIds, actor \in Actors :
        \/ createCase(caseId, actor)
        \/ \E justified \in BOOLEAN :
             \/ PlainTransaction(caseId, actor, justified)
             \/ \E types \in DocumentTypeClaims, ids \in SUBSET DocumentIds :
                  DocumentedTransaction(caseId, actor, types, ids, justified)
  BY DEF Next
<1>2. ASSUME NEW justified \in BOOLEAN,
             PlainTransaction(caseId, actor, justified)
      PROVE  \E rule \in TRANSITIONS :
               performTransition(caseId, rule, actor, {}, {}, justified)
  BY <1>2 DEF PlainTransaction, recordDomesticReview, forwardToCoordination,
              recordForeignReview, rejectAmendment, closeCase, TRANSITIONS
<1>3. ASSUME NEW justified \in BOOLEAN, NEW types \in DocumentTypeClaims,
             NEW ids \in SUBSET DocumentIds,
             DocumentedTransaction(caseId, actor, types, ids, justified)
      PROVE  \E rule \in TRANSITIONS :
               performTransition(caseId, rule, actor, types, ids, justified)
  BY <1>3 DEF DocumentedTransaction, submitCase, requestMoreInformation,
              respondToInformationRequest, forwardToForeignAuthority,
              approveCase, rejectCase, issueAssurance,
              initiateNonSubstantiveAmendment, initiateSubstantiveAmendment,
              amendAssurance, revokeAssurance, TRANSITIONS
<1>4. {} \in SUBSET DocumentIds /\ actor \in UserClaims
  BY CaseContractAssumption
<1> QED
  BY <1>1, <1>2, <1>3, <1>4 DEF CaseStep

\* The creation of a case stores a draft and the first event.
LEMMA CreationWrites ==
  ASSUME NEW caseId \in CaseIds, NEW actor, createCase(caseId, actor)
  PROVE  \E e \in WorkflowEvent :
           Writes(caseId, DraftCase, e) /\ ~Exists(caseId)
<1> DEFINE e == [caseId |-> caseId, sequence |-> 1,
                 actionType |-> "create_case",
                 previousState |-> Undefined, newState |-> "draft"]
<1>1. e \in WorkflowEvent
  BY DEF WorkflowEvent, WorkflowActions, WorkflowStates
<1>2. Writes(caseId, DraftCase, e)
  BY <1>1, DraftPreserves DEF createCase, Writes, Recorded, DraftCase
<1> QED
  BY <1>1, <1>2 DEF createCase

\* A transition stores the updated record and an event of its action.
LEMMA TransitionWrites ==
  ASSUME IInv, NEW caseId \in CaseIds, NEW actor \in UserClaims,
         NEW rule \in TRANSITIONS, NEW types, NEW ids \in SUBSET DocumentIds,
         NEW justified \in BOOLEAN,
         performTransition(caseId, rule, actor, types, ids, justified)
  PROVE  \E e \in WorkflowEvent :
           /\ Writes(caseId, applyTransition(cases[caseId], rule, actor, ids), e)
           /\ Exists(caseId)
           /\ e.actionType = rule.action
<1> DEFINE c == cases[caseId]
           d == applyTransition(c, rule, actor, ids)
           e == [caseId |-> caseId, sequence |-> d.auditSequenceNumber,
                 actionType |-> rule.action,
                 previousState |-> c.currentState,
                 newState |-> d.currentState]
<1>1. RecordInv(c)
  BY DEF performTransition, IInv
<1>2. RecordInv(d)
  BY <1>1, TransitionPreserves DEF performTransition
<1>3. d.auditSequenceNumber = c.auditSequenceNumber + 1
  BY DEF applyTransition
<1>4. e \in WorkflowEvent
  <2>1. c.currentState \in WorkflowStates /\ d.currentState \in WorkflowStates
    BY <1>1, <1>2 DEF RecordInv, AssuranceCase
  <2>2. d.auditSequenceNumber \in Nat
    BY <1>2 DEF RecordInv, AssuranceCase
  <2> HIDE DEF c, d
  <2> QED
    BY <2>1, <2>2, RuleActions DEF WorkflowEvent
<1>5. putCase(caseId, d) /\ appendEvent(e) /\ Exists(caseId)
  BY DEF performTransition
<1>6. Writes(caseId, d, e)
  <2> HIDE DEF d
  <2> QED
    BY <1>2, <1>3, <1>4, <1>5, RuleActions DEF Writes, Recorded
<1> QED
  BY <1>4, <1>5, <1>6

\* Every step stores one record and one event.
LEMMA StepWrites ==
  ASSUME IInv, CaseStep
  PROVE  \E caseId \in CaseIds, d \in AssuranceCase, e \in WorkflowEvent :
           Writes(caseId, d, e)
<1>1. PICK caseId \in CaseIds, actor \in UserClaims :
        \/ createCase(caseId, actor)
        \/ \E rule \in TRANSITIONS, ids \in SUBSET DocumentIds,
              justified \in BOOLEAN : \E types :
             performTransition(caseId, rule, actor, types, ids, justified)
  BY DEF CaseStep
<1>2. \E d : \E e \in WorkflowEvent : Writes(caseId, d, e)
  BY <1>1, CreationWrites, TransitionWrites
<1> QED
  BY <1>2 DEF Writes, RecordInv

-----------------------------------------------------------------------------
(* A write preserves each part of the invariant. *)

\* The sequence number is above every one in the case's trail, so the event is
\* new and replaces none.
LEMMA EventIsNew ==
  ASSUME IInv, NEW caseId \in CaseIds, NEW d, NEW e, Writes(caseId, d, e)
  PROVE  /\ events' = events \cup {e}
         /\ \A f \in events : f.caseId = caseId =>
              f.sequence \in 1 .. Recorded(caseId)
         /\ Recorded(caseId) \in Nat
<1>1. Recorded(caseId) \in Nat
  BY DEF IInv, Recorded, RecordInv, AssuranceCase
<1>2. \A f \in events : f.caseId = caseId =>
        f.sequence \in 1 .. Recorded(caseId)
  BY DEF IInv, TrailGapFree, Trail, Recorded
<1>3. \A f \in events : ~SameEventKey(f, e)
  BY <1>1, <1>2 DEF SameEventKey, Writes
<1> QED
  BY <1>1, <1>2, <1>3 DEF Writes, appendEvent

\* A well-formed record and event keep the type invariant.
LEMMA TypeOKWritten ==
  ASSUME IInv, NEW caseId \in CaseIds, NEW d, NEW e, Writes(caseId, d, e)
  PROVE  TypeOK'
<1>1. d \in AssuranceCase /\ d.currentState \in WorkflowStates
  BY DEF Writes, RecordInv, AssuranceCase
<1>2. cases' \in [CaseIds -> AssuranceCase \cup {NoCase}]
  BY <1>1 DEF IInv, TypeOK, Writes, putCase
<1>3. stateIndex' \subseteq WorkflowStates \X CaseIds
  BY <1>1 DEF IInv, TypeOK, Writes, putCase, indexAfterPut
<1>4. events' \subseteq WorkflowEvent
  BY DEF IInv, TypeOK, Writes, appendEvent
<1> QED
  BY <1>2, <1>3, <1>4 DEF TypeOK

\* putCase keeps the index exact: the new key is put, the old one deleted.
LEMMA StateIndexWritten ==
  ASSUME IInv, NEW caseId \in CaseIds, NEW d, NEW e, Writes(caseId, d, e)
  PROVE  StateIndexExact'
<1>1. d # NoCase /\ d.currentState \in WorkflowStates
  BY CaseContractAssumption DEF Writes, RecordInv, AssuranceCase
<1>2. /\ cases' = [cases EXCEPT ![caseId] = d]
      /\ cases \in [CaseIds -> AssuranceCase \cup {NoCase}]
  BY DEF Writes, putCase, IInv, TypeOK
<1>3. stateIndex' = indexAfterPut(caseId, cases[caseId], d)
  BY DEF Writes, putCase
<1> SUFFICES ASSUME NEW state \in WorkflowStates, NEW other \in CaseIds
             PROVE  <<state, other>> \in stateIndex'
                      <=> Exists(other)' /\ cases'[other].currentState = state
  BY DEF StateIndexExact
<1>4. <<state, other>> \in stateIndex
        <=> Exists(other) /\ cases[other].currentState = state
  BY DEF IInv, StateIndexExact
<1>5. CASE other # caseId
  BY <1>2, <1>3, <1>4, <1>5 DEF indexAfterPut, Exists
<1>6. CASE other = caseId
  BY <1>1, <1>2, <1>3, <1>4, <1>6 DEF indexAfterPut, Exists
<1> QED
  BY <1>5, <1>6

\* An event with the next sequence number keeps the trail free of gaps.
LEMMA TrailGapFreeWritten ==
  ASSUME IInv, NEW caseId \in CaseIds, NEW d, NEW e, Writes(caseId, d, e)
  PROVE  TrailGapFree'
<1>1. d # NoCase
  BY CaseContractAssumption DEF Writes, RecordInv
<1>2. /\ cases' = [cases EXCEPT ![caseId] = d]
      /\ cases \in [CaseIds -> AssuranceCase \cup {NoCase}]
  BY DEF Writes, putCase, IInv, TypeOK
<1>3. events' = events \cup {e} /\ Recorded(caseId) \in Nat
  BY EventIsNew
<1>4. \A f \in events : f.caseId = caseId =>
        f.sequence \in 1 .. Recorded(caseId)
  BY EventIsNew
<1>5. e.caseId = caseId /\ e.sequence = Recorded(caseId) + 1
      /\ d.auditSequenceNumber = Recorded(caseId) + 1
  BY DEF Writes
<1> SUFFICES ASSUME NEW other \in CaseIds
             PROVE  /\ ~Exists(other)' => Trail(other)' = {}
                    /\ Exists(other)' =>
                       /\ {f.sequence : f \in Trail(other)'}
                            = 1 .. cases'[other].auditSequenceNumber
                       /\ \A f, g \in Trail(other)' :
                            f.sequence = g.sequence => f = g
  BY DEF TrailGapFree
<1>6. CASE other # caseId
  <2>1. Trail(other)' = Trail(other)
    BY <1>3, <1>5, <1>6 DEF Trail
  <2>2. cases'[other] = cases[other]
    BY <1>2, <1>6
  <2> QED
    BY <2>1, <2>2 DEF IInv, TrailGapFree, Exists
<1>7. CASE other = caseId
  <2>1. Trail(other)' = Trail(other) \cup {e}
    BY <1>3, <1>5, <1>7 DEF Trail
  <2>2. cases'[other] = d
    BY <1>2, <1>7
  <2>3. {f.sequence : f \in Trail(other)} = 1 .. Recorded(caseId)
    BY <1>7 DEF IInv, TrailGapFree, Recorded
  <2>4. {f.sequence : f \in Trail(other)'} = 1 .. (Recorded(caseId) + 1)
    BY <1>3, <1>5, <2>1, <2>3
  <2>5. \A f, g \in Trail(other)' : f.sequence = g.sequence => f = g
    <3>1. \A f, g \in Trail(other) : f.sequence = g.sequence => f = g
      BY DEF IInv, TrailGapFree, Trail
    <3>2. \A f \in Trail(other) : f.sequence # e.sequence
      BY <1>3, <1>4, <1>5, <1>7 DEF Trail
    <3> QED
      BY <2>1, <3>1, <3>2
  <2> QED
    BY <1>1, <1>5, <2>2, <2>4, <2>5 DEF Exists
<1> QED
  BY <1>6, <1>7

\* An event that starts where the record stood keeps the trail replayable.
LEMMA TrailReplaysWritten ==
  ASSUME IInv, NEW caseId \in CaseIds, NEW d, NEW e, Writes(caseId, d, e)
  PROVE  TrailReplays'
<1>2. /\ cases' = [cases EXCEPT ![caseId] = d]
      /\ cases \in [CaseIds -> AssuranceCase \cup {NoCase}]
  BY DEF Writes, putCase, IInv, TypeOK
<1>3. events' = events \cup {e} /\ Recorded(caseId) \in Nat
  BY EventIsNew
<1>4. \A f \in events : f.caseId = caseId =>
        f.sequence \in 1 .. Recorded(caseId)
  BY EventIsNew
<1>5. /\ e.caseId = caseId /\ e.sequence = Recorded(caseId) + 1
      /\ d.auditSequenceNumber = Recorded(caseId) + 1
      /\ e.newState = d.currentState
  BY DEF Writes
<1> SUFFICES ASSUME NEW other \in CaseIds, NEW f \in Trail(other)'
             PROVE  /\ f.sequence = 1 <=> f.actionType = "create_case"
                    /\ f.sequence = cases'[other].auditSequenceNumber
                         => f.newState = cases'[other].currentState
                    /\ \A g \in Trail(other)' :
                         g.sequence = f.sequence + 1
                           => g.previousState = f.newState
  BY DEF TrailReplays
<1>6. CASE other # caseId
  <2>1. Trail(other)' = Trail(other)
    BY <1>3, <1>5, <1>6 DEF Trail
  <2>2. cases'[other] = cases[other]
    BY <1>2, <1>6
  <2> QED
    BY <2>1, <2>2 DEF IInv, TrailReplays
<1>7. CASE other = caseId
  <2>1. Trail(other)' = Trail(other) \cup {e}
    BY <1>3, <1>5, <1>7 DEF Trail
  <2>2. cases'[other] = d
    BY <1>2, <1>7
  <2>3. \A g \in Trail(other) :
          /\ g.sequence \in 1 .. Recorded(caseId)
          /\ g.sequence = 1 <=> g.actionType = "create_case"
          /\ g.sequence = cases[other].auditSequenceNumber
               => g.newState = cases[other].currentState
          /\ \A h \in Trail(other) :
               h.sequence = g.sequence + 1 => h.previousState = g.newState
    BY <1>4, <1>7 DEF IInv, TrailReplays, Trail
  <2>4. Trail(other) # {} =>
          /\ Exists(caseId)
          /\ Recorded(caseId) = cases[caseId].auditSequenceNumber
          /\ Recorded(caseId) >= 1
    BY <1>3, <1>7, <2>3 DEF IInv, TrailGapFree, Recorded
  <2>5. e.sequence = 1 <=> e.actionType = "create_case"
    <3>1. Exists(caseId) <=> Recorded(caseId) # 0
      BY DEF IInv, Recorded, RecordInv, AssuranceCase
    <3> QED BY <1>3, <1>5, <3>1 DEF Writes
  <2>6. CASE f = e
    BY <1>3, <1>5, <2>1, <2>2, <2>3, <2>5, <2>6
  <2>7. CASE f \in Trail(other)
    <3>1. \A g \in Trail(other)' :
            g.sequence = f.sequence + 1 => g.previousState = f.newState
      BY <1>3, <1>5, <1>7, <2>1, <2>3, <2>4, <2>7 DEF Writes
    <3>2. f.sequence # cases'[other].auditSequenceNumber
      BY <1>3, <1>5, <2>2, <2>3, <2>7
    <3> QED
      BY <2>3, <2>7, <3>1, <3>2
  <2> QED
    BY <2>1, <2>6, <2>7
<1> QED
  BY <1>6, <1>7

\* A record that satisfies the record invariant keeps it for all cases.
LEMMA RecordsWritten ==
  ASSUME IInv, NEW caseId \in CaseIds, NEW d, NEW e, Writes(caseId, d, e)
  PROVE  (\A other \in CaseIds : Exists(other) => RecordInv(cases[other]))'
BY DEF IInv, TypeOK, Writes, putCase, Exists

-----------------------------------------------------------------------------
(* The invariant. *)

\* The inductive invariant holds of the empty world state.
LEMMA InitIInv == Init => IInv
BY DEF Init, IInv, TypeOK, StateIndexExact, TrailGapFree, TrailReplays, Trail,
       Exists

\* Every transaction preserves the inductive invariant.
LEMMA StepIInv ==
  ASSUME IInv, CaseStep
  PROVE  IInv' /\ events \subseteq events'
<1>1. PICK caseId \in CaseIds, d \in AssuranceCase, e \in WorkflowEvent :
        Writes(caseId, d, e)
  BY StepWrites
<1> QED
  BY <1>1, TypeOKWritten, StateIndexWritten, TrailGapFreeWritten,
     TrailReplaysWritten, RecordsWritten, EventIsNew DEF IInv

\* And so does every step.
LEMMA NextIInv == IInv /\ [Next]_vars => IInv'
<1> SUFFICES ASSUME IInv, [Next]_vars PROVE IInv'
  OBVIOUS
<1>1. CASE Next
  BY <1>1, NextCases, StepIInv
<1>2. CASE UNCHANGED vars
  BY <1>2 DEF vars, IInv, TypeOK, StateIndexExact, TrailGapFree, TrailReplays,
              Trail, Exists
<1> QED
  BY <1>1, <1>2

\* The inductive invariant holds in every reachable state.
LEMMA Invariance == Spec => []IInv
BY InitIInv, NextIInv, PTL DEF Spec

\* Every stored record, index key and event keeps its declared shape.
THEOREM TypeCorrect == Spec => []TypeOK
<1>1. IInv => TypeOK
  BY DEF IInv
<1> QED
  BY <1>1, Invariance, PTL

\* The state index and the records never diverge (putCase).
THEOREM StateIndexCorrect == Spec => []StateIndexExact
<1>1. IInv => StateIndexExact
  BY DEF IInv
<1> QED
  BY <1>1, Invariance, PTL

\* The audit trail of every case is gap-free, unforked and replays to its
\* current state (appendEvent, auditSequenceNumber).
THEOREM TrailCorrect == Spec => [](TrailGapFree /\ TrailReplays)
<1>1. IInv => TrailGapFree /\ TrailReplays
  BY DEF IInv
<1> QED
  BY <1>1, Invariance, PTL

\* An information request always remembers the lane it interrupted.
THEOREM InformationRequestCorrect == Spec => []InformationRequestResumable
<1>1. IInv => InformationRequestResumable
  BY DEF IInv, RecordInv, InformationRequestResumable
<1> QED
  BY <1>1, Invariance, PTL

\* The assurance stays in force while an amendment to it is reviewed.
THEOREM BaselineCorrect == Spec => []AmendmentKeepsBaseline
<1>1. IInv => AmendmentKeepsBaseline
  BY DEF IInv, RecordInv, AmendmentKeepsBaseline
<1> QED
  BY <1>1, Invariance, PTL

\* The issuance status agrees with the workflow, through amendments and
\* revocation.
THEOREM IssuanceCorrect == Spec => []IssuanceMatchesState
<1>1. IInv => IssuanceMatchesState
  BY DEF IInv, RecordInv, IssuanceMatchesState
<1> QED
  BY <1>1, Invariance, PTL

\* Nothing is approved or in force without an endorsement.
THEOREM ReviewCorrect == Spec => []ApprovalIsEndorsed
<1>1. IInv => ApprovalIsEndorsed
  BY DEF IInv, RecordInv, ApprovalIsEndorsed
<1> QED
  BY <1>1, Invariance, PTL

\* A first review carries neither an approval nor an issued assurance.
THEOREM PrecedenceCorrect == Spec => []ReviewPrecedesGrant
<1>1. IInv => ReviewPrecedesGrant
  BY DEF IInv, RecordInv, ReviewPrecedesGrant
<1> QED
  BY <1>1, Invariance, PTL

\* No transaction replaces or removes an event of the trail.
THEOREM TrailIsAppendOnly == Spec => TrailAppendOnly
<1>1. IInv /\ [Next]_vars => [events \subseteq events']_vars
  <2> SUFFICES ASSUME IInv, Next PROVE events \subseteq events'
    OBVIOUS
  <2> QED
    BY NextCases, StepIInv
<1> QED
  BY <1>1, Invariance, PTL DEF Spec, TrailAppendOnly

-----------------------------------------------------------------------------
(* Progress: in every state but the archive a rule of the table applies.   *)

\* In each state there is an officer whose action the table accepts.
LEMMA RecordProceeds ==
  ASSUME NEW c, RecordInv(c), c.currentState # "closed_archived"
  PROVE  CanProceed(c)
<1> DEFINE Takes(rule, role) ==
      evaluateTransition(c, rule, OfficerOf(role), DOCUMENT_TYPES, TRUE)
<1> USE DEF Rule, evaluateTransition, ActorAllowed, ActorInGoodStanding,
            OfficerOf, OrganizationOf, AllowedActions, DOCUMENT_TYPES,
            ApplicantRoles, ApplicantOrgs, NationalRoles, NationalOrgs,
            ReviewerRoles, ReviewerOrgs, ReviewLanes, InForceStates,
            RecordAllows, AmendmentInitiations
<1>1. CASE c.currentState = "draft"
  <2>1. Takes(SubmitCaseRule, "applicant_case_manager")
    BY <1>1 DEF SubmitCaseRule
  <2> QED
    BY <2>1 DEF CanProceed, TRANSITIONS, UserRoles
<1>2. CASE c.currentState = "submitted"
  <2>1. Takes(RecordDomesticReviewRule, "domestic_regulator_officer")
    BY <1>2 DEF RecordDomesticReviewRule
  <2> QED
    BY <2>1 DEF CanProceed, TRANSITIONS, UserRoles
<1>3. CASE c.currentState = "under_domestic_review"
  <2>1. Takes(ForwardToCoordinationRule, "domestic_regulator_officer")
    BY <1>3 DEF ForwardToCoordinationRule
  <2> QED
    BY <2>1 DEF CanProceed, TRANSITIONS, UserRoles
<1>4. CASE c.currentState = "more_information_requested"
  <2>1. Takes(RespondToInformationRequestRule, "applicant_case_manager")
    BY <1>4 DEF RespondToInformationRequestRule, RecordInv, Resumable, Undefined
  <2> QED
    BY <2>1 DEF CanProceed, TRANSITIONS, UserRoles
<1>5. CASE c.currentState = "awaiting_coordination"
  <2>1. Takes(RequestMoreInformationRule, "coordination_officer")
    BY <1>5 DEF RequestMoreInformationRule
  <2> QED
    BY <2>1 DEF CanProceed, TRANSITIONS, UserRoles
<1>6. CASE c.currentState = "forwarded_to_foreign_authority"
  <2>1. Takes(RecordForeignReviewRule, "foreign_regulator_officer")
    BY <1>6 DEF RecordForeignReviewRule
  <2> QED
    BY <2>1 DEF CanProceed, TRANSITIONS, UserRoles
<1>7. CASE c.currentState = "under_foreign_review"
  <2>1. Takes(RequestMoreInformationRule, "foreign_regulator_officer")
    BY <1>7 DEF RequestMoreInformationRule
  <2> QED
    BY <2>1 DEF CanProceed, TRANSITIONS, UserRoles
<1>8. CASE c.currentState \in InForceStates \cup {"rejected", "revoked"}
  <2>1. Takes(CloseCaseRule, "domestic_regulator_officer")
    BY <1>8 DEF CloseCaseRule
  <2> QED
    BY <2>1 DEF CanProceed, TRANSITIONS, UserRoles
<1>9. CASE c.currentState = "approved"
  <2>1. c.pendingAmendmentReviewMode \in {"none", "substantive"}
    BY <1>9 DEF RecordInv, AssuranceCase, BaselineKept, EffectiveLane,
                AmendmentLanes
  <2>2. CASE c.pendingAmendmentReviewMode = "none"
    <3>1. Takes(IssueAssuranceRule, "coordination_officer")
      BY <1>9, <2>2 DEF IssueAssuranceRule
    <3> QED
      BY <3>1 DEF CanProceed, TRANSITIONS, UserRoles
  <2>3. CASE c.pendingAmendmentReviewMode = "substantive"
    <3>1. Takes(AmendAssuranceRule, "coordination_officer")
      BY <1>9, <2>3 DEF AmendAssuranceRule
    <3> QED
      BY <3>1 DEF CanProceed, TRANSITIONS, UserRoles
  <2> QED
    BY <2>1, <2>2, <2>3
<1>10. c.currentState \in WorkflowStates
  BY DEF RecordInv, AssuranceCase
<1> QED
  BY <1>1, <1>2, <1>3, <1>4, <1>5, <1>6, <1>7, <1>8, <1>9, <1>10
  DEF WorkflowStates

\* No case is stuck: some officer can always take an open case further.
THEOREM NoCaseIsStuck == Spec => []NoCaseStuck
<1>1. IInv => NoCaseStuck
  BY RecordProceeds DEF IInv, NoCaseStuck
<1> QED
  BY <1>1, Invariance, PTL

-----------------------------------------------------------------------------
(* Finality. *)

\* Where a transition may lead from a record, in the terms of OutcomesAreFinal.
LEMMA TransitionIsFinal ==
  ASSUME NEW c, RecordInv(c), NEW actor, NEW types, NEW ids, NEW justified,
         NEW rule \in TRANSITIONS,
         evaluateTransition(c, rule, actor, types, justified)
  PROVE  LET d == applyTransition(c, rule, actor, ids) IN
         /\ c.currentState # "closed_archived"
         /\ c.currentState \in {"rejected", "revoked"} =>
              d.currentState = "closed_archived"
         /\ d.currentAssuranceVersion >= c.currentAssuranceVersion
<1> USE DEF RecordInv, AssuranceCase, evaluateTransition, Rule,
            applyTransition, nextState, nextVersion, ReviewLanes,
            InForceStates
<1>1. CASE rule = SubmitCaseRule
  BY <1>1 DEF SubmitCaseRule
<1>2. CASE rule = RecordDomesticReviewRule
  BY <1>2 DEF RecordDomesticReviewRule
<1>3. CASE rule = RequestMoreInformationRule
  BY <1>3 DEF RequestMoreInformationRule
<1>4. CASE rule = RespondToInformationRequestRule
  BY <1>4 DEF RespondToInformationRequestRule
<1>5. CASE rule = ForwardToCoordinationRule
  BY <1>5 DEF ForwardToCoordinationRule
<1>6. CASE rule = ForwardToForeignAuthorityRule
  BY <1>6 DEF ForwardToForeignAuthorityRule
<1>7. CASE rule = RecordForeignReviewRule
  BY <1>7 DEF RecordForeignReviewRule
<1>8. CASE rule = ApproveCaseRule
  BY <1>8 DEF ApproveCaseRule
<1>9. CASE rule = RejectCaseRule
  BY <1>9 DEF RejectCaseRule
<1>10. CASE rule = InitiateNonSubstantiveAmendmentRule
  BY <1>10 DEF InitiateNonSubstantiveAmendmentRule
<1>11. CASE rule = InitiateSubstantiveAmendmentRule
  BY <1>11 DEF InitiateSubstantiveAmendmentRule
<1>12. CASE rule = IssueAssuranceRule
  BY <1>12 DEF IssueAssuranceRule
<1>13. CASE rule = AmendAssuranceRule
  BY <1>13 DEF AmendAssuranceRule
<1>14. CASE rule = RejectAmendmentRule
  BY <1>14 DEF RejectAmendmentRule
<1>15. CASE rule = RevokeAssuranceRule
  BY <1>15 DEF RevokeAssuranceRule
<1>16. CASE rule = CloseCaseRule
  BY <1>16 DEF CloseCaseRule
<1> QED
  BY <1>1, <1>2, <1>3, <1>4, <1>5, <1>6, <1>7, <1>8, <1>9, <1>10, <1>11,
     <1>12, <1>13, <1>14, <1>15, <1>16 DEF TRANSITIONS

\* An archived case never changes, a rejected or revoked one can only be
\* archived, and the assurance version never decreases.
THEOREM OutcomesFinal == Spec => OutcomesAreFinal
<1> DEFINE Final(caseId) ==
      Exists(caseId) =>
        LET c == cases[caseId]
            d == cases'[caseId]
        IN /\ c.currentState = "closed_archived" => d = c
           /\ c.currentState \in {"rejected", "revoked"} =>
                d.currentState \in {c.currentState, "closed_archived"}
           /\ d.currentAssuranceVersion >= c.currentAssuranceVersion
<1>1. IInv /\ [Next]_vars => [\A caseId \in CaseIds : Final(caseId)]_vars
  <2> SUFFICES ASSUME IInv, Next, NEW other \in CaseIds, Exists(other)
               PROVE  Final(other)
    OBVIOUS
  <2>1. PICK caseId \in CaseIds, actor \in UserClaims :
          \/ createCase(caseId, actor)
          \/ \E rule \in TRANSITIONS, ids \in SUBSET DocumentIds,
                justified \in BOOLEAN : \E types :
               performTransition(caseId, rule, actor, types, ids, justified)
    BY NextCases DEF CaseStep
  <2>2. cases[other].currentAssuranceVersion \in Nat
    BY DEF IInv, RecordInv, AssuranceCase
  <2>3. CASE cases'[other] = cases[other]
    BY <2>2, <2>3
  <2>4. CASE cases'[other] # cases[other]
    <3>1. cases \in [CaseIds -> AssuranceCase \cup {NoCase}]
      BY DEF IInv, TypeOK
    <3>2. other = caseId
      BY <2>1, <2>4, <3>1 DEF createCase, performTransition, putCase
    <3>3. PICK rule \in TRANSITIONS, ids \in SUBSET DocumentIds,
               justified \in BOOLEAN : \E types :
            performTransition(caseId, rule, actor, types, ids, justified)
      BY <2>1, <3>2 DEF createCase
    <3>4. PICK types :
            performTransition(caseId, rule, actor, types, ids, justified)
      BY <3>3
    <3>5. cases'[other]
            = applyTransition(cases[other], rule, actor, ids)
      BY <3>1, <3>2, <3>4 DEF performTransition, putCase
    <3>6. RecordInv(cases[other])
      BY DEF IInv
    <3> QED
      BY <3>2, <3>4, <3>5, <3>6, TransitionIsFinal DEF performTransition
  <2> QED
    BY <2>3, <2>4
<1> QED
  BY <1>1, Invariance, PTL DEF Spec, OutcomesAreFinal

-----------------------------------------------------------------------------
(* Refinement of the lifecycle. *)

\* The moves of AssuranceLifecycle on one case, between two of its records.
LifecycleMove(c, d) ==
  LET From(phase, to, version) ==
        PhaseOf(c) = phase /\ PhaseOf(d) = to /\ VersionOf(d) = version
  IN \/ From(PhaseOf(c), PhaseOf(c), VersionOf(c))
     \/ From("absent", "application", 0)
     \/ From("application", "in_force", 1)
     \/ From("application", "refused", 0)
     \/ From("in_force", "under_amendment", VersionOf(c))
     \/ From("under_amendment", "in_force", VersionOf(c) + 1)
     \/ From("under_amendment", "in_force", VersionOf(c))
     \/ From("in_force", "revoked", VersionOf(c))
     \/ \E phase \in {"in_force", "refused", "revoked"} :
          From(phase, "archived", VersionOf(c))

\* Closing a case archives it, whatever was in force, refused or revoked.
LEMMA CloseIsMove ==
  ASSUME NEW c, RecordInv(c), c # NoCase, NEW d, d # NoCase,
         NEW actor, NEW types, NEW ids, NEW justified,
         evaluateTransition(c, CloseCaseRule, actor, types, justified),
         d = applyTransition(c, CloseCaseRule, actor, ids)
  PROVE  LifecycleMove(c, d)
<1>1. c.currentState \in InForceStates \cup {"rejected", "revoked"}
  BY DEF evaluateTransition, CloseCaseRule, Rule
<1>2. /\ c.pendingAmendmentReviewMode = "none"
      /\ PhaseOf(c) \in {"in_force", "refused", "revoked"}
  BY <1>1 DEF RecordInv, AssuranceCase, BaselineKept, EffectiveLane,
              AmendmentLanes, ReviewLanes, InForceStates, PhaseOf
<1>3. /\ d.currentState = "closed_archived"
      /\ d.pendingAmendmentReviewMode = "none"
      /\ d.currentAssuranceVersion = c.currentAssuranceVersion
  BY <1>2 DEF applyTransition, CloseCaseRule, Rule, nextState, nextReviewMode,
              nextVersion, ClosesAmendment
<1>4. PhaseOf(d) = "archived" /\ VersionOf(d) = VersionOf(c)
  BY <1>3 DEF PhaseOf, VersionOf, InForceStates
<1> QED
  BY <1>2, <1>4 DEF LifecycleMove

\* Every other transition is a move of the lifecycle, or invisible to it.
LEMMA ReviewIsMove ==
  ASSUME NEW c, RecordInv(c), NEW actor, NEW types, NEW ids, NEW justified,
         NEW rule \in TRANSITIONS \ {CloseCaseRule},
         evaluateTransition(c, rule, actor, types, justified),
         c # NoCase, applyTransition(c, rule, actor, ids) # NoCase
  PROVE  LifecycleMove(c, applyTransition(c, rule, actor, ids))
<1> USE DEF RecordInv, AssuranceCase, evaluateTransition, Rule,
            applyTransition, nextState, nextVersion, nextReviewMode,
            ClosesAmendment, AmendmentInitiations, ReviewLanes, InForceStates,
            RecordAllows, LifecycleMove, PhaseOf, VersionOf, Resumable,
            BaselineKept, EffectiveLane, AmendmentLanes, IssuanceConsistent,
            Ungranted, PreApproval
<1>1. CASE rule = SubmitCaseRule
  BY <1>1 DEF SubmitCaseRule
<1>2. CASE rule = RecordDomesticReviewRule
  BY <1>2 DEF RecordDomesticReviewRule
<1>3. CASE rule = RequestMoreInformationRule
  BY <1>3 DEF RequestMoreInformationRule
<1>4. CASE rule = RespondToInformationRequestRule
  BY <1>4 DEF RespondToInformationRequestRule
<1>5. CASE rule = ForwardToCoordinationRule
  BY <1>5 DEF ForwardToCoordinationRule
<1>6. CASE rule = ForwardToForeignAuthorityRule
  BY <1>6 DEF ForwardToForeignAuthorityRule
<1>7. CASE rule = RecordForeignReviewRule
  BY <1>7 DEF RecordForeignReviewRule
<1>8. CASE rule = ApproveCaseRule
  BY <1>8 DEF ApproveCaseRule
<1>9. CASE rule = RejectCaseRule
  BY <1>9 DEF RejectCaseRule
<1>10. CASE rule = InitiateNonSubstantiveAmendmentRule
  BY <1>10 DEF InitiateNonSubstantiveAmendmentRule
<1>11. CASE rule = InitiateSubstantiveAmendmentRule
  BY <1>11 DEF InitiateSubstantiveAmendmentRule
<1>12. CASE rule = IssueAssuranceRule
  BY <1>12 DEF IssueAssuranceRule
<1>13. CASE rule = AmendAssuranceRule
  BY <1>13 DEF AmendAssuranceRule
<1>14. CASE rule = RejectAmendmentRule
  BY <1>14 DEF RejectAmendmentRule
<1>15. CASE rule = RevokeAssuranceRule
  BY <1>15 DEF RevokeAssuranceRule
<1> HIDE DEF RecordInv, evaluateTransition, applyTransition, LifecycleMove
<1> QED
  BY <1>1, <1>2, <1>3, <1>4, <1>5, <1>6, <1>7, <1>8, <1>9, <1>10, <1>11,
     <1>12, <1>13, <1>14, <1>15 DEF TRANSITIONS

\* The two together.
LEMMA TransitionIsMove ==
  ASSUME NEW c, RecordInv(c), NEW actor, NEW types, NEW ids, NEW justified,
         NEW rule \in TRANSITIONS,
         evaluateTransition(c, rule, actor, types, justified),
         c # NoCase, applyTransition(c, rule, actor, ids) # NoCase
  PROVE  LifecycleMove(c, applyTransition(c, rule, actor, ids))
<1>1. CASE rule = CloseCaseRule
  <2>1. evaluateTransition(c, CloseCaseRule, actor, types, justified)
    BY <1>1
  <2> QED
    BY <1>1, <2>1, CloseIsMove
<1>2. CASE rule # CloseCaseRule
  BY <1>2, ReviewIsMove
<1> QED
  BY <1>1, <1>2

\* Every transaction is a move of one case and leaves the others alone.
LEMMA StepIsMove ==
  ASSUME IInv, CaseStep
  PROVE  \E caseId \in CaseIds :
           /\ LifecycleMove(cases[caseId], cases'[caseId])
           /\ \A other \in CaseIds \ {caseId} : cases'[other] = cases[other]
<1>1. PICK caseId \in CaseIds, actor \in UserClaims :
        \/ createCase(caseId, actor)
        \/ \E rule \in TRANSITIONS, ids \in SUBSET DocumentIds,
              justified \in BOOLEAN : \E types :
             performTransition(caseId, rule, actor, types, ids, justified)
  BY DEF CaseStep
<1>2. cases \in [CaseIds -> AssuranceCase \cup {NoCase}]
  BY DEF IInv, TypeOK
<1>3. \A other \in CaseIds \ {caseId} : cases'[other] = cases[other]
  BY <1>1, <1>2 DEF createCase, performTransition, putCase
<1>4. CASE createCase(caseId, actor)
  <2>1. cases[caseId] = NoCase /\ cases'[caseId] = DraftCase
    BY <1>2, <1>4 DEF createCase, putCase, Exists
  <2>2. DraftCase # NoCase
    BY DraftPreserves, CaseContractAssumption DEF RecordInv
  <2>3. LifecycleMove(cases[caseId], cases'[caseId])
    BY <2>1, <2>2
    DEF LifecycleMove, PhaseOf, VersionOf, DraftCase, InForceStates
  <2> QED
    BY <1>3, <2>3
<1>5. ASSUME NEW rule \in TRANSITIONS, NEW ids \in SUBSET DocumentIds,
             NEW justified \in BOOLEAN, NEW types,
             performTransition(caseId, rule, actor, types, ids, justified)
      PROVE  LifecycleMove(cases[caseId], cases'[caseId])
  <2>1. RecordInv(cases[caseId]) /\ cases[caseId] # NoCase
    BY <1>5 DEF performTransition, IInv, Exists
  <2>2. cases'[caseId] = applyTransition(cases[caseId], rule, actor, ids)
    BY <1>2, <1>5 DEF performTransition, putCase
  <2>3. evaluateTransition(cases[caseId], rule, actor, types, justified)
    BY <1>5 DEF performTransition
  <2>4. applyTransition(cases[caseId], rule, actor, ids) # NoCase
    BY <2>1, <2>3, TransitionPreserves, CaseContractAssumption
    DEF RecordInv
  <2> QED
    BY <2>1, <2>2, <2>3, <2>4, TransitionIsMove
<1> QED
  BY <1>1, <1>3, <1>4, <1>5

\* Records whose phase and version stay are one step nobody outside notices.
LEMMA LifecycleUnchanged ==
  ASSUME \A caseId \in CaseIds :
           /\ PhaseOf(cases'[caseId]) = PhaseOf(cases[caseId])
           /\ VersionOf(cases'[caseId]) = VersionOf(cases[caseId])
  PROVE  UNCHANGED Lifecycle!lifecycleVars
BY DEF Lifecycle!lifecycleVars

\* Every transaction is a step of the lifecycle, or nothing.
LEMMA StepOfLifecycle ==
  ASSUME IInv, CaseStep
  PROVE  Lifecycle!Next \/ UNCHANGED Lifecycle!lifecycleVars
<1> DEFINE phase == [c \in CaseIds |-> PhaseOf(cases[c])]
           version == [c \in CaseIds |-> VersionOf(cases[c])]
<1>1. PICK caseId \in CaseIds :
        /\ LifecycleMove(cases[caseId], cases'[caseId])
        /\ \A other \in CaseIds \ {caseId} : cases'[other] = cases[other]
  BY StepIsMove
<1>2. phase' = [phase EXCEPT ![caseId] = PhaseOf(cases'[caseId])]
  BY <1>1
<1>3. version' = [version EXCEPT ![caseId] = VersionOf(cases'[caseId])]
  BY <1>1
<1>4. /\ phase[caseId] = PhaseOf(cases[caseId])
      /\ version[caseId] = VersionOf(cases[caseId])
  OBVIOUS
<1>5. CASE /\ PhaseOf(cases'[caseId]) = PhaseOf(cases[caseId])
           /\ VersionOf(cases'[caseId]) = VersionOf(cases[caseId])
  BY <1>1, <1>5, LifecycleUnchanged
<1>6. CASE ~(/\ PhaseOf(cases'[caseId]) = PhaseOf(cases[caseId])
             /\ VersionOf(cases'[caseId]) = VersionOf(cases[caseId]))
  <2> HIDE DEF phase, version
  <2>1. \/ Lifecycle!Open(caseId) \/ Lifecycle!Grant(caseId)
        \/ Lifecycle!Refuse(caseId) \/ Lifecycle!BeginAmendment(caseId)
        \/ Lifecycle!ConcludeAmendment(caseId)
        \/ Lifecycle!DropAmendment(caseId)
        \/ Lifecycle!Revoke(caseId) \/ Lifecycle!Archive(caseId)
    BY <1>1, <1>2, <1>3, <1>4, <1>6
    DEF LifecycleMove, Lifecycle!Open, Lifecycle!Grant, Lifecycle!Refuse,
        Lifecycle!BeginAmendment, Lifecycle!ConcludeAmendment,
        Lifecycle!DropAmendment, Lifecycle!Revoke, Lifecycle!Archive,
        Lifecycle!Move, phase, version
  <2> QED
    BY <2>1 DEF Lifecycle!Next
<1> QED
  BY <1>5, <1>6

\* The empty world state shows the lifecycle no case.
LEMMA InitOfLifecycle == Init => Lifecycle!Init
BY DEF Init, Lifecycle!Init, PhaseOf, VersionOf

\* The contract implements the lifecycle: seen from outside the review, each
\* transaction is one move of one case, or nothing.
THEOREM ImplementsLifecycle == Spec => LifecycleSpec
<1>1. IInv /\ [Next]_vars => [Lifecycle!Next]_(Lifecycle!lifecycleVars)
  <2> SUFFICES ASSUME IInv, [Next]_vars
               PROVE  Lifecycle!Next \/ UNCHANGED Lifecycle!lifecycleVars
    OBVIOUS
  <2>1. CASE UNCHANGED vars
    BY <2>1 DEF vars, Lifecycle!lifecycleVars
  <2>2. CASE Next
    BY <2>2, NextCases, StepOfLifecycle
  <2> QED
    BY <2>1, <2>2
<1> QED
  BY <1>1, InitOfLifecycle, Invariance, PTL
  DEF Spec, LifecycleSpec, Lifecycle!Spec

-----------------------------------------------------------------------------
(* What the trail says of a record: the version counts the instruments, a  *)
(* rejected amendment restores what it interrupted, and every instrument   *)
(* had a review of its own.                                                *)

Instruments == {"issue_assurance", "amend_assurance"}

ReviewSteps ==
  {"forward_to_coordination", "forward_to_foreign_authority",
   "record_foreign_review", "approve_case"}

RoundOpeners == {"create_case", "initiate_substantive_amendment"}

\* The steps of a review that lie behind a lane.
LaneSteps(lane) ==
  IF lane = "awaiting_coordination" THEN {"forward_to_coordination"}
  ELSE IF lane = "forwarded_to_foreign_authority"
  THEN {"forward_to_coordination", "forward_to_foreign_authority"}
  ELSE IF lane = "under_foreign_review"
  THEN ReviewSteps \ {"approve_case"}
  ELSE IF lane = "approved" THEN ReviewSteps
  ELSE {}

-----------------------------------------------------------------------------
(* What an action does to the version, to the baseline and to the lane.    *)

VersionMoves(c, d, action) ==
  d.currentAssuranceVersion =
    c.currentAssuranceVersion + IF action \in Instruments THEN 1 ELSE 0

BaselineMoves(c, d, action) ==
  /\ action \in AmendmentInitiations => d.amendmentBaseState = c.currentState
  /\ action \notin AmendmentInitiations /\ d.pendingAmendmentReviewMode # "none" =>
       /\ c.pendingAmendmentReviewMode # "none"
       /\ d.amendmentBaseState = c.amendmentBaseState
  /\ /\ c.pendingAmendmentReviewMode # "none"
     /\ d.pendingAmendmentReviewMode = "none"
     /\ d.currentAssuranceVersion = c.currentAssuranceVersion
     => /\ d.currentState = c.amendmentBaseState
        /\ action \notin AmendmentInitiations

LaneMoves(c, d, action) ==
  /\ /\ d.pendingAmendmentReviewMode # "non_substantive"
     /\ LaneSteps(EffectiveLane(d)) # {}
     => /\ c.pendingAmendmentReviewMode # "non_substantive"
        /\ action \notin RoundOpeners
        /\ LaneSteps(EffectiveLane(d))
             \subseteq LaneSteps(EffectiveLane(c)) \cup {action}
  /\ \/ action = "issue_assurance"
     \/ action = "amend_assurance" /\ c.currentState = "approved"
     => /\ c.pendingAmendmentReviewMode # "non_substantive"
        /\ EffectiveLane(c) = "approved"

\* Issuing and amending raise the version, and nothing else does (nextVersion).
LEMMA VersionAdvances ==
  ASSUME NEW c, RecordInv(c), NEW actor, NEW types, NEW ids, NEW justified,
         NEW rule \in TRANSITIONS,
         evaluateTransition(c, rule, actor, types, justified)
  PROVE  VersionMoves(c, applyTransition(c, rule, actor, ids), rule.action)
<1> USE DEF RecordInv, AssuranceCase, evaluateTransition, Rule,
            applyTransition, nextVersion, RecordAllows, VersionMoves,
            Instruments, Ungranted, PreApproval, EffectiveLane,
            IssuanceConsistent
<1>1. CASE rule = SubmitCaseRule
  BY <1>1 DEF SubmitCaseRule
<1>2. CASE rule = RecordDomesticReviewRule
  BY <1>2 DEF RecordDomesticReviewRule
<1>3. CASE rule = RequestMoreInformationRule
  BY <1>3 DEF RequestMoreInformationRule
<1>4. CASE rule = RespondToInformationRequestRule
  BY <1>4 DEF RespondToInformationRequestRule
<1>5. CASE rule = ForwardToCoordinationRule
  BY <1>5 DEF ForwardToCoordinationRule
<1>6. CASE rule = ForwardToForeignAuthorityRule
  BY <1>6 DEF ForwardToForeignAuthorityRule
<1>7. CASE rule = RecordForeignReviewRule
  BY <1>7 DEF RecordForeignReviewRule
<1>8. CASE rule = ApproveCaseRule
  BY <1>8 DEF ApproveCaseRule
<1>9. CASE rule = RejectCaseRule
  BY <1>9 DEF RejectCaseRule
<1>10. CASE rule = InitiateNonSubstantiveAmendmentRule
  BY <1>10 DEF InitiateNonSubstantiveAmendmentRule
<1>11. CASE rule = InitiateSubstantiveAmendmentRule
  BY <1>11 DEF InitiateSubstantiveAmendmentRule
<1>12. CASE rule = IssueAssuranceRule
  BY <1>12 DEF IssueAssuranceRule
<1>13. CASE rule = AmendAssuranceRule
  BY <1>13 DEF AmendAssuranceRule
<1>14. CASE rule = RejectAmendmentRule
  BY <1>14 DEF RejectAmendmentRule
<1>15. CASE rule = RevokeAssuranceRule
  BY <1>15 DEF RevokeAssuranceRule
<1>16. CASE rule = CloseCaseRule
  BY <1>16 DEF CloseCaseRule
<1> QED
  BY <1>1, <1>2, <1>3, <1>4, <1>5, <1>6, <1>7, <1>8, <1>9, <1>10, <1>11,
     <1>12, <1>13, <1>14, <1>15, <1>16 DEF TRANSITIONS

\* An initiation records the state it interrupts, and a rejection goes back to it
\* (nextBaseState, nextState).
LEMMA BaselineAdvances ==
  ASSUME NEW c, RecordInv(c), NEW actor, NEW types, NEW ids, NEW justified,
         NEW rule \in TRANSITIONS,
         evaluateTransition(c, rule, actor, types, justified)
  PROVE  BaselineMoves(c, applyTransition(c, rule, actor, ids), rule.action)
<1> USE DEF RecordInv, AssuranceCase, evaluateTransition, Rule,
            applyTransition, nextState, nextVersion, nextReviewMode,
            nextBaseState, ClosesAmendment, AmendmentInitiations,
            RecordAllows, BaselineMoves, BaselineKept, EffectiveLane,
            AmendmentLanes, InForceStates, ReviewLanes
<1>1. CASE rule = SubmitCaseRule
  BY <1>1 DEF SubmitCaseRule
<1>2. CASE rule = RecordDomesticReviewRule
  BY <1>2 DEF RecordDomesticReviewRule
<1>3. CASE rule = RequestMoreInformationRule
  BY <1>3 DEF RequestMoreInformationRule
<1>4. CASE rule = RespondToInformationRequestRule
  BY <1>4 DEF RespondToInformationRequestRule
<1>5. CASE rule = ForwardToCoordinationRule
  BY <1>5 DEF ForwardToCoordinationRule
<1>6. CASE rule = ForwardToForeignAuthorityRule
  BY <1>6 DEF ForwardToForeignAuthorityRule
<1>7. CASE rule = RecordForeignReviewRule
  BY <1>7 DEF RecordForeignReviewRule
<1>8. CASE rule = ApproveCaseRule
  BY <1>8 DEF ApproveCaseRule
<1>9. CASE rule = RejectCaseRule
  BY <1>9 DEF RejectCaseRule
<1>10. CASE rule = InitiateNonSubstantiveAmendmentRule
  BY <1>10 DEF InitiateNonSubstantiveAmendmentRule
<1>11. CASE rule = InitiateSubstantiveAmendmentRule
  BY <1>11 DEF InitiateSubstantiveAmendmentRule
<1>12. CASE rule = IssueAssuranceRule
  BY <1>12 DEF IssueAssuranceRule
<1>13. CASE rule = AmendAssuranceRule
  BY <1>13 DEF AmendAssuranceRule
<1>14. CASE rule = RejectAmendmentRule
  BY <1>14 DEF RejectAmendmentRule
<1>15. CASE rule = RevokeAssuranceRule
  BY <1>15 DEF RevokeAssuranceRule
<1>16. CASE rule = CloseCaseRule
  BY <1>16 DEF CloseCaseRule
<1> QED
  BY <1>1, <1>2, <1>3, <1>4, <1>5, <1>6, <1>7, <1>8, <1>9, <1>10, <1>11,
     <1>12, <1>13, <1>14, <1>15, <1>16 DEF TRANSITIONS

\* No lane is entered without the steps behind it (TRANSITIONS).
LEMMA LaneAdvances ==
  ASSUME NEW c, RecordInv(c), NEW actor, NEW types, NEW ids, NEW justified,
         NEW rule \in TRANSITIONS,
         evaluateTransition(c, rule, actor, types, justified)
  PROVE  LaneMoves(c, applyTransition(c, rule, actor, ids), rule.action)
<1> USE DEF RecordInv, AssuranceCase, evaluateTransition, Rule,
            applyTransition, nextState, nextSubstate, nextReviewMode,
            ClosesAmendment, RecordAllows, LaneMoves, LaneSteps, ReviewSteps,
            RoundOpeners, BaselineKept, EffectiveLane, AmendmentLanes,
            Resumable, InForceStates, ReviewLanes
<1>1. CASE rule = SubmitCaseRule
  BY <1>1 DEF SubmitCaseRule
<1>2. CASE rule = RecordDomesticReviewRule
  BY <1>2 DEF RecordDomesticReviewRule
<1>3. CASE rule = RequestMoreInformationRule
  BY <1>3 DEF RequestMoreInformationRule
<1>4. CASE rule = RespondToInformationRequestRule
  BY <1>4 DEF RespondToInformationRequestRule
<1>5. CASE rule = ForwardToCoordinationRule
  BY <1>5 DEF ForwardToCoordinationRule
<1>6. CASE rule = ForwardToForeignAuthorityRule
  BY <1>6 DEF ForwardToForeignAuthorityRule
<1>7. CASE rule = RecordForeignReviewRule
  BY <1>7 DEF RecordForeignReviewRule
<1>8. CASE rule = ApproveCaseRule
  BY <1>8 DEF ApproveCaseRule
<1>9. CASE rule = RejectCaseRule
  BY <1>9 DEF RejectCaseRule
<1>10. CASE rule = InitiateNonSubstantiveAmendmentRule
  BY <1>10 DEF InitiateNonSubstantiveAmendmentRule
<1>11. CASE rule = InitiateSubstantiveAmendmentRule
  BY <1>11 DEF InitiateSubstantiveAmendmentRule
<1>12. CASE rule = IssueAssuranceRule
  BY <1>12 DEF IssueAssuranceRule
<1>13. CASE rule = AmendAssuranceRule
  BY <1>13 DEF AmendAssuranceRule
<1>14. CASE rule = RejectAmendmentRule
  BY <1>14 DEF RejectAmendmentRule
<1>15. CASE rule = RevokeAssuranceRule
  BY <1>15 DEF RevokeAssuranceRule
<1>16. CASE rule = CloseCaseRule
  BY <1>16 DEF CloseCaseRule
<1> QED
  BY <1>1, <1>2, <1>3, <1>4, <1>5, <1>6, <1>7, <1>8, <1>9, <1>10, <1>11,
     <1>12, <1>13, <1>14, <1>15, <1>16 DEF TRANSITIONS

-----------------------------------------------------------------------------
(* Steps of the contract. *)

\* Event e, later than every event of its case, takes the case to record d.
Extends(caseId, d, e) ==
  /\ cases'[caseId] = d
  /\ d \in AssuranceCase
  /\ \A other \in CaseIds \ {caseId} : cases'[other] = cases[other]
  /\ events' = events \cup {e}
  /\ e.caseId = caseId
  /\ \A f \in Trail(caseId) : f.sequence < e.sequence
  /\ e.sequence \in Nat
  /\ IF Exists(caseId)
     THEN /\ e.previousState = cases[caseId].currentState
          /\ VersionMoves(cases[caseId], d, e.actionType)
          /\ BaselineMoves(cases[caseId], d, e.actionType)
          /\ LaneMoves(cases[caseId], d, e.actionType)
     ELSE d = DraftCase /\ e.actionType = "create_case"

\* A write is such a step.
LEMMA WriteExtends ==
  ASSUME IInv, NEW caseId \in CaseIds, NEW d, NEW e \in WorkflowEvent,
         Writes(caseId, d, e),
         IF Exists(caseId)
         THEN /\ VersionMoves(cases[caseId], d, e.actionType)
              /\ BaselineMoves(cases[caseId], d, e.actionType)
              /\ LaneMoves(cases[caseId], d, e.actionType)
         ELSE d = DraftCase
  PROVE  Extends(caseId, d, e)
<1>1. /\ cases' = [cases EXCEPT ![caseId] = d]
      /\ cases \in [CaseIds -> AssuranceCase \cup {NoCase}]
      /\ d \in AssuranceCase
  BY DEF Writes, putCase, IInv, TypeOK, RecordInv
<1>2. /\ events' = events \cup {e}
      /\ \A f \in events : f.caseId = caseId => f.sequence \in 1 .. Recorded(caseId)
      /\ Recorded(caseId) \in Nat
  BY EventIsNew
<1>3. e.sequence = Recorded(caseId) + 1 /\ e.caseId = caseId
  BY DEF Writes
<1>4. /\ \A f \in Trail(caseId) : f.sequence < e.sequence
      /\ e.sequence \in Nat
  BY <1>2, <1>3 DEF Trail
<1> QED
  BY <1>1, <1>2, <1>3, <1>4 DEF Extends, Writes

\* Every transaction is such a step.
LEMMA StepExtends ==
  ASSUME IInv, CaseStep
  PROVE  \E caseId \in CaseIds, d \in AssuranceCase, e \in WorkflowEvent :
           Extends(caseId, d, e)
<1>1. PICK caseId \in CaseIds, actor \in UserClaims :
        \/ createCase(caseId, actor)
        \/ \E rule \in TRANSITIONS, ids \in SUBSET DocumentIds,
              justified \in BOOLEAN : \E types :
             performTransition(caseId, rule, actor, types, ids, justified)
  BY DEF CaseStep
<1>2. CASE createCase(caseId, actor)
  BY <1>2, CreationWrites, WriteExtends DEF Extends
<1>3. ASSUME NEW rule \in TRANSITIONS, NEW ids \in SUBSET DocumentIds,
             NEW justified \in BOOLEAN, NEW types,
             performTransition(caseId, rule, actor, types, ids, justified)
      PROVE  \E d \in AssuranceCase, e \in WorkflowEvent : Extends(caseId, d, e)
  <2> DEFINE c == cases[caseId]
             d == applyTransition(c, rule, actor, ids)
  <2>1. PICK e \in WorkflowEvent :
          Writes(caseId, d, e) /\ Exists(caseId) /\ e.actionType = rule.action
    BY <1>3, TransitionWrites
  <2>2. /\ RecordInv(c)
        /\ evaluateTransition(c, rule, actor, types, justified)
    BY <1>3 DEF performTransition, IInv
  <2>3. /\ VersionMoves(c, d, rule.action)
        /\ BaselineMoves(c, d, rule.action)
        /\ LaneMoves(c, d, rule.action)
    BY <2>2, VersionAdvances, BaselineAdvances, LaneAdvances
  <2> HIDE DEF d
  <2>4. Extends(caseId, d, e)
    BY <2>1, <2>3, WriteExtends
  <2> QED
    BY <2>1, <2>4 DEF Extends
<1> QED
  BY <1>1, <1>2, <1>3

\* The trail of the case grows by the event, the others stay.
LEMMA TrailExtended ==
  ASSUME NEW caseId \in CaseIds, NEW d, NEW e, Extends(caseId, d, e)
  PROVE  /\ Trail(caseId)' = Trail(caseId) \cup {e}
         /\ e \notin Trail(caseId)
         /\ \A other \in CaseIds \ {caseId} : Trail(other)' = Trail(other)
BY DEF Extends, Trail

-----------------------------------------------------------------------------
(* The invariant.                                                          *)

InstrumentsOf(caseId) == {e \in Trail(caseId) : e.actionType \in Instruments}

VersionCounted(caseId) ==
  /\ IsFiniteSet(InstrumentsOf(caseId))
  /\ IF Exists(caseId)
     THEN cases[caseId].currentAssuranceVersion = Cardinality(InstrumentsOf(caseId))
     ELSE Trail(caseId) = {}

\* The last initiation of the trail interrupted the baseline.
BaselineRecorded(caseId) ==
  Exists(caseId) /\ cases[caseId].pendingAmendmentReviewMode # "none" =>
    \E e \in Trail(caseId) :
      /\ e.actionType \in AmendmentInitiations
      /\ e.previousState = cases[caseId].amendmentBaseState
      /\ \A f \in Trail(caseId) :
           f.actionType \in AmendmentInitiations => f.sequence <= e.sequence

\* A step of the review since the round was opened.
DoneInRound(caseId, step) ==
  \E f \in Trail(caseId) :
    /\ f.actionType = step
    /\ \A g \in Trail(caseId) :
         g.actionType \in RoundOpeners => g.sequence < f.sequence

LaneReached(caseId) ==
  /\ Exists(caseId)
  /\ cases[caseId].pendingAmendmentReviewMode # "non_substantive"
  => \A step \in LaneSteps(EffectiveLane(cases[caseId])) :
       DoneInRound(caseId, step)

Reviewed(e) ==
  \A step \in ReviewSteps : PrecededSince(e, step, RoundOpeners)

InstrumentsReviewed(caseId) ==
  \A e \in Trail(caseId) :
    \/ e.actionType = "issue_assurance"
    \/ e.actionType = "amend_assurance" /\ e.previousState = "approved"
    => Reviewed(e)

HistoryInv ==
  /\ IInv
  /\ \A caseId \in CaseIds :
       /\ VersionCounted(caseId)
       /\ BaselineRecorded(caseId)
       /\ LaneReached(caseId)
       /\ InstrumentsReviewed(caseId)

\* A step keeps the count.
LEMMA CountExtended ==
  ASSUME NEW caseId \in CaseIds, NEW d, NEW e, Extends(caseId, d, e),
         cases[caseId] \in AssuranceCase \cup {NoCase},
         VersionCounted(caseId)
  PROVE  VersionCounted(caseId)'
<1>1. /\ Trail(caseId)' = Trail(caseId) \cup {e}
      /\ e \notin Trail(caseId)
  BY TrailExtended
<1>2. Exists(caseId)' /\ cases'[caseId] = d
  BY CaseContractAssumption DEF Extends, Exists
<1>3. IsFiniteSet(InstrumentsOf(caseId)) /\ Cardinality(InstrumentsOf(caseId)) \in Nat
  BY FS_CardinalityType DEF VersionCounted
<1>4. CASE e.actionType \in Instruments
  <2>1. InstrumentsOf(caseId)' = InstrumentsOf(caseId) \cup {e}
    BY <1>1, <1>4 DEF InstrumentsOf
  <2>2. e \notin InstrumentsOf(caseId)
    BY <1>1 DEF InstrumentsOf
  <2>3. /\ IsFiniteSet(InstrumentsOf(caseId)')
        /\ Cardinality(InstrumentsOf(caseId)') = Cardinality(InstrumentsOf(caseId)) + 1
    BY <1>3, <2>1, <2>2, FS_AddElement
  <2>4. Exists(caseId)
    BY <1>4 DEF Extends, Instruments
  <2>5. d.currentAssuranceVersion = Cardinality(InstrumentsOf(caseId)) + 1
    BY <1>4, <2>4 DEF Extends, VersionMoves, VersionCounted
  <2> QED
    BY <1>2, <2>3, <2>5 DEF VersionCounted
<1>5. CASE e.actionType \notin Instruments
  <2>1. InstrumentsOf(caseId)' = InstrumentsOf(caseId)
    BY <1>1, <1>5 DEF InstrumentsOf
  <2>2. d.currentAssuranceVersion = Cardinality(InstrumentsOf(caseId))
    <3>1. CASE Exists(caseId)
      BY <1>3, <1>5, <3>1 DEF Extends, VersionMoves, VersionCounted
    <3>2. CASE ~Exists(caseId)
      <4>1. InstrumentsOf(caseId) = {}
        BY <3>2 DEF VersionCounted, InstrumentsOf
      <4> QED
        BY <3>2, <4>1, FS_EmptySet DEF Extends, DraftCase
    <3> QED
      BY <3>1, <3>2
  <2> QED
    BY <1>2, <1>3, <2>1, <2>2 DEF VersionCounted
<1> QED
  BY <1>4, <1>5

\* An initiation is recorded, and stays the last one while it is pending.
LEMMA BaselineExtended ==
  ASSUME NEW caseId \in CaseIds, NEW d, NEW e, Extends(caseId, d, e),
         \A f \in Trail(caseId) : f.sequence \in Nat,
         BaselineRecorded(caseId)
  PROVE  BaselineRecorded(caseId)'
<1> SUFFICES ASSUME d.pendingAmendmentReviewMode # "none"
             PROVE  \E a \in Trail(caseId)' :
                      /\ a.actionType \in AmendmentInitiations
                      /\ a.previousState = d.amendmentBaseState
                      /\ \A f \in Trail(caseId)' :
                           f.actionType \in AmendmentInitiations
                             => f.sequence <= a.sequence
  BY DEF BaselineRecorded, Extends
<1>1. Trail(caseId)' = Trail(caseId) \cup {e}
  BY TrailExtended
<1>2. Exists(caseId)
  BY DEF Extends, DraftCase
<1>3. CASE e.actionType \in AmendmentInitiations
  <2>1. e.previousState = d.amendmentBaseState
    BY <1>2, <1>3 DEF Extends, BaselineMoves
  <2>2. \A f \in Trail(caseId) \cup {e} : f.sequence <= e.sequence
    BY DEF Extends
  <2> QED
    BY <1>1, <1>3, <2>1, <2>2
<1>4. CASE e.actionType \notin AmendmentInitiations
  <2>1. /\ cases[caseId].pendingAmendmentReviewMode # "none"
        /\ d.amendmentBaseState = cases[caseId].amendmentBaseState
    BY <1>2, <1>4 DEF Extends, BaselineMoves
  <2> QED
    BY <1>1, <1>2, <1>4, <2>1 DEF BaselineRecorded
<1> QED
  BY <1>3, <1>4

\* The lane that is entered has its steps behind it.
LEMMA LaneExtended ==
  ASSUME NEW caseId \in CaseIds, NEW d, NEW e, Extends(caseId, d, e),
         LaneReached(caseId)
  PROVE  LaneReached(caseId)'
<1> SUFFICES ASSUME d.pendingAmendmentReviewMode # "non_substantive",
                    NEW step \in LaneSteps(EffectiveLane(d))
             PROVE  DoneInRound(caseId, step)'
  BY DEF LaneReached, Extends
<1>1. Trail(caseId)' = Trail(caseId) \cup {e}
  BY TrailExtended
<1>2. Exists(caseId)
  BY DEF Extends, DraftCase, EffectiveLane, LaneSteps
<1>3. /\ cases[caseId].pendingAmendmentReviewMode # "non_substantive"
      /\ e.actionType \notin RoundOpeners
      /\ step \in LaneSteps(EffectiveLane(cases[caseId])) \cup {e.actionType}
  BY <1>2 DEF Extends, LaneMoves
<1>4. CASE step = e.actionType
  <2>1. \A g \in Trail(caseId) \cup {e} :
          g.actionType \in RoundOpeners => g.sequence < e.sequence
    BY <1>3 DEF Extends
  <2> QED
    BY <1>1, <1>4, <2>1 DEF DoneInRound
<1>5. CASE step \in LaneSteps(EffectiveLane(cases[caseId]))
  <2>1. DoneInRound(caseId, step)
    BY <1>2, <1>3, <1>5 DEF LaneReached
  <2> QED
    BY <1>1, <1>3, <2>1 DEF DoneInRound
<1> QED
  BY <1>3, <1>4, <1>5

\* The reviews behind the instruments of the trail stay, and a new instrument
\* has its own.
LEMMA ReviewsExtended ==
  ASSUME NEW caseId \in CaseIds, NEW d, NEW e, Extends(caseId, d, e),
         \A f \in Trail(caseId) : f.sequence \in Nat,
         LaneReached(caseId), InstrumentsReviewed(caseId)
  PROVE  InstrumentsReviewed(caseId)'
<1> SUFFICES ASSUME NEW a \in Trail(caseId)',
                    \/ a.actionType = "issue_assurance"
                    \/ /\ a.actionType = "amend_assurance"
                       /\ a.previousState = "approved",
                    NEW step \in ReviewSteps
             PROVE  PrecededSince(a, step, RoundOpeners)'
  BY DEF InstrumentsReviewed, Reviewed
<1>1. Trail(caseId)' = Trail(caseId) \cup {e} /\ e.caseId = caseId
  BY TrailExtended DEF Extends
<1>2. \A f \in Trail(caseId) : f.sequence < e.sequence
  BY DEF Extends
<1>3. CASE a \in Trail(caseId)
  <2>1. PrecededSince(a, step, RoundOpeners)
    BY <1>3 DEF InstrumentsReviewed, Reviewed
  <2>2. a.caseId = caseId
    BY <1>3 DEF Trail
  <2>3. ~(e.sequence < a.sequence)
    BY <1>2, <1>3 DEF Extends
  <2> QED
    BY <1>1, <2>1, <2>2, <2>3 DEF PrecededSince
<1>4. CASE a = e
  <2>1. Exists(caseId)
    BY <1>4 DEF Extends
  <2>2. /\ cases[caseId].pendingAmendmentReviewMode # "non_substantive"
        /\ EffectiveLane(cases[caseId]) = "approved"
    BY <1>4, <2>1 DEF Extends, LaneMoves
  <2>3. DoneInRound(caseId, step)
    BY <2>1, <2>2 DEF LaneReached, LaneSteps
  <2>4. PICK f \in Trail(caseId) :
          /\ f.actionType = step
          /\ \A g \in Trail(caseId) :
               g.actionType \in RoundOpeners => g.sequence < f.sequence
    BY <2>3 DEF DoneInRound
  <2>5. e.actionType \notin RoundOpeners
    BY <1>4 DEF RoundOpeners
  <2> QED
    BY <1>1, <1>2, <1>4, <2>4, <2>5 DEF PrecededSince
<1> QED
  BY <1>1, <1>3, <1>4

\* It holds of the empty world state.
LEMMA HistoryInvInit == Init => HistoryInv
<1> SUFFICES ASSUME Init PROVE HistoryInv
  OBVIOUS
<1>1. \A caseId \in CaseIds : Trail(caseId) = {} /\ ~Exists(caseId)
  BY DEF Init, Trail, Exists
<1>2. \A caseId \in CaseIds : InstrumentsOf(caseId) = {}
  BY <1>1 DEF InstrumentsOf
<1> QED
  BY <1>1, <1>2, InitIInv, FS_EmptySet
  DEF HistoryInv, VersionCounted, BaselineRecorded, LaneReached,
      InstrumentsReviewed

\* Every transaction preserves it.
LEMMA StepHistoryInv ==
  ASSUME HistoryInv, CaseStep
  PROVE  HistoryInv'
<1>1. IInv /\ IInv'
  BY StepIInv DEF HistoryInv
<1>2. PICK caseId \in CaseIds, d \in AssuranceCase, e \in WorkflowEvent :
        Extends(caseId, d, e)
  BY <1>1, StepExtends
<1>3. cases[caseId] \in AssuranceCase \cup {NoCase}
  BY <1>1 DEF IInv, TypeOK
<1>4. \A f \in Trail(caseId) : f.sequence \in Nat
  BY <1>1 DEF IInv, TypeOK, Trail, WorkflowEvent
<1>5. /\ VersionCounted(caseId)'
      /\ BaselineRecorded(caseId)'
      /\ LaneReached(caseId)'
      /\ InstrumentsReviewed(caseId)'
  BY <1>2, <1>3, <1>4, CountExtended, BaselineExtended, LaneExtended,
     ReviewsExtended DEF HistoryInv
<1>6. ASSUME NEW other \in CaseIds \ {caseId}
      PROVE  /\ VersionCounted(other)'
             /\ BaselineRecorded(other)'
             /\ LaneReached(other)'
             /\ InstrumentsReviewed(other)'
  <2>1. Trail(other)' = Trail(other) /\ cases'[other] = cases[other]
    BY <1>2, TrailExtended DEF Extends
  <2>2. Exists(other)' <=> Exists(other)
    BY <2>1 DEF Exists
  <2>3. InstrumentsOf(other)' = InstrumentsOf(other)
    BY <2>1 DEF InstrumentsOf
  <2>4. \A f \in Trail(other) : f.caseId = other
    BY DEF Trail
  <2>5. VersionCounted(other)' /\ BaselineRecorded(other)'
    BY <2>1, <2>2, <2>3 DEF HistoryInv, VersionCounted, BaselineRecorded
  <2>6. LaneReached(other)'
    BY <2>1, <2>2 DEF HistoryInv, LaneReached, DoneInRound
  <2>7. InstrumentsReviewed(other)'
    BY <2>1, <2>4
    DEF HistoryInv, InstrumentsReviewed, Reviewed, PrecededSince
  <2> QED
    BY <2>5, <2>6, <2>7
<1> QED
  BY <1>1, <1>5, <1>6 DEF HistoryInv

\* So does a step that leaves cases and trail alone.
LEMMA HistoryInvUnchanged ==
  ASSUME HistoryInv, UNCHANGED vars
  PROVE  HistoryInv'
<1>1. IInv'
  BY NextIInv DEF HistoryInv
<1> QED
  BY <1>1
  DEF vars, HistoryInv, VersionCounted, BaselineRecorded, LaneReached,
      InstrumentsReviewed, InstrumentsOf, DoneInRound, Reviewed,
      PrecededSince, Trail, Exists

\* Every transaction of CaseContract preserves the history.
LEMMA HistoryInvNext == HistoryInv /\ [Next]_vars => HistoryInv'
BY NextCases, StepHistoryInv, HistoryInvUnchanged

\* It holds in every reachable state.
LEMMA HistoryInvariance == Spec => []HistoryInv
BY HistoryInvInit, HistoryInvNext, PTL DEF Spec

-----------------------------------------------------------------------------
(* The theorems.                                                           *)

\* What it says of the versions and of the reviews behind the instruments.
LEMMA HistoryShown ==
  HistoryInv => VersionCountsInstruments /\ EveryInstrumentReviewed
<1>1. HistoryInv => VersionCountsInstruments
  BY DEF HistoryInv, VersionCounted, InstrumentsOf, Instruments,
         VersionCountsInstruments
<1>2. HistoryInv => EveryInstrumentReviewed
  <2> SUFFICES ASSUME HistoryInv, NEW e \in events,
                      \/ e.actionType = "issue_assurance"
                      \/ /\ e.actionType = "amend_assurance"
                         /\ e.previousState = "approved",
                      NEW step \in ReviewSteps
               PROVE  PrecededSince(e, step, RoundOpeners)
    BY DEF EveryInstrumentReviewed, ReviewSteps, RoundOpeners
  <2>1. e.caseId \in CaseIds /\ e \in Trail(e.caseId)
    BY DEF HistoryInv, IInv, TypeOK, WorkflowEvent, Trail
  <2> QED
    BY <2>1 DEF HistoryInv, InstrumentsReviewed, Reviewed
<1> QED
  BY <1>1, <1>2

\* The version of an assurance is the number of instruments in its trail
\* (nextVersion against the events performTransition appends).
THEOREM VersionCorrect == Spec => []VersionCountsInstruments
BY HistoryShown, HistoryInvariance, PTL

\* No instrument is issued, and no substantive amendment concluded, on the
\* review of an earlier round (TRANSITIONS with the statuses of the record).
THEOREM InstrumentsAreReviewed == Spec => []EveryInstrumentReviewed
BY HistoryShown, HistoryInvariance, PTL

\* An amendment that is dropped gives back the state its initiation interrupted.
Restored(caseId) ==
  /\ Exists(caseId)
  /\ cases[caseId].pendingAmendmentReviewMode # "none"
  /\ cases'[caseId].pendingAmendmentReviewMode = "none"
  /\ cases'[caseId].currentAssuranceVersion
       = cases[caseId].currentAssuranceVersion
  =>
  \E e \in Trail(caseId) :
    /\ e.actionType \in AmendmentInitiations
    /\ e.previousState = cases'[caseId].currentState
    /\ \A f \in Trail(caseId) :
         f.actionType \in AmendmentInitiations => f.sequence <= e.sequence

\* Every transaction does so.
LEMMA StepRestores ==
  ASSUME HistoryInv, CaseStep
  PROVE  \A caseId \in CaseIds : Restored(caseId)
<1> SUFFICES ASSUME NEW k \in CaseIds, Exists(k),
                    cases[k].pendingAmendmentReviewMode # "none",
                    cases'[k].pendingAmendmentReviewMode = "none",
                    cases'[k].currentAssuranceVersion
                      = cases[k].currentAssuranceVersion
             PROVE  Restored(k)
  BY DEF Restored
<1>1. PICK caseId \in CaseIds, d \in AssuranceCase, e \in WorkflowEvent :
        Extends(caseId, d, e)
  BY StepExtends DEF HistoryInv
<1>2. k = caseId
  BY <1>1 DEF Extends
<1>3. cases'[k].currentState = cases[k].amendmentBaseState
  BY <1>1, <1>2 DEF Extends, BaselineMoves
<1>4. BaselineRecorded(k)
  BY DEF HistoryInv
<1> QED
  BY <1>3, <1>4 DEF BaselineRecorded, Restored

\* A rejected amendment gives back the state that its initiation interrupted
\* (amendmentBaseState).
THEOREM RejectionRestores == Spec => AmendmentRejectionRestores
<1>1. HistoryInv /\ [Next]_vars => [\A caseId \in CaseIds : Restored(caseId)]_vars
  BY NextCases, StepRestores
<1> QED
  BY <1>1, HistoryInvariance, PTL
  DEF Spec, AmendmentRejectionRestores, Restored

-----------------------------------------------------------------------------
(* The deployed chaincode. *)


\* The references have the declared shape; versions are counted from one.
ReferencesTyped ==
  /\ documents \in [DocumentIds -> Documents!DocumentReference \cup {NoDocument}]
  /\ \A d \in DocumentIds : documents[d] # NoDocument => documents[d].version >= 1

ChaincodeInv ==
  /\ IInv
  /\ ReferencesTyped
  /\ CaseDocumentsExact
  /\ ActiveDocumentsListed
  /\ VersionChainSound

-----------------------------------------------------------------------------
(* The steps of the document contract. *)

\* The active documents of a case are rewritten, and nothing else of it.
Relists(caseId, ids) ==
  /\ Exists(caseId)
  /\ cases' = [cases EXCEPT ![caseId].activeDocumentIds = ids]
  /\ UNCHANGED <<stateIndex, events>>

\* A new reference is anchored, after a predecessor that is switched off or,
\* for Undefined, as the first of its chain.
Anchors(documentId, reference, superseded) ==
  LET caseId == reference.caseId
  IN
  /\ documents[documentId] = NoDocument
  /\ reference \in Documents!DocumentReference
  /\ reference.isActive
  /\ reference.supersedesDocumentId = superseded
  /\ IF superseded = Undefined
     THEN /\ reference.version = 1
          /\ documents' = [documents EXCEPT ![documentId] = reference]
     ELSE /\ superseded \in Anchored(caseId)
          /\ documents[superseded].documentType = reference.documentType
          /\ reference.version = documents[superseded].version + 1
          /\ documents' = [documents EXCEPT ![superseded].isActive = FALSE,
                                            ![documentId] = reference]
  /\ caseDocuments' = caseDocuments \cup {<<caseId, documentId>>}
  /\ Relists(caseId, (cases[caseId].activeDocumentIds \ {superseded})
                       \cup {documentId})

\* A reference is switched off.
Deactivates(documentId, caseId) ==
  /\ documentId \in Anchored(caseId)
  /\ documents' = [documents EXCEPT ![documentId].isActive = FALSE]
  /\ UNCHANGED caseDocuments
  /\ Relists(caseId, cases[caseId].activeDocumentIds \ {documentId})

\* Both contracts use one vocabulary.
LEMMA SameVocabulary ==
  /\ Documents!DOCUMENT_TYPES = DOCUMENT_TYPES
  /\ Documents!Undefined = Undefined
BY DEF Documents!DOCUMENT_TYPES, DOCUMENT_TYPES, Documents!Undefined, Undefined

\* Switching the active flag on keeps the rest of a reference.
LEMMA ReferenceActivated ==
  ASSUME NEW payload \in Documents!DocumentReference
  PROVE  LET reference == [payload EXCEPT !.isActive = TRUE]
         IN /\ reference \in Documents!DocumentReference
            /\ reference.isActive
            /\ reference.caseId = payload.caseId
            /\ reference.documentType = payload.documentType
            /\ reference.version = payload.version
            /\ reference.supersedesDocumentId = payload.supersedesDocumentId
BY DEF Documents!DocumentReference

\* addDocumentReference anchors the first version of a chain.
LEMMA FirstVersionAnchors ==
  ASSUME ChaincodeInv, NEW documentId \in DocumentIds,
         NEW payload \in Documents!DocumentReference, NEW actor,
         Documents!addDocumentReference(documentId, payload, actor),
         UNCHANGED <<stateIndex, events>>
  PROVE  LET reference == [payload EXCEPT !.isActive = TRUE]
         IN /\ reference \in Documents!DocumentReference
            /\ Anchors(documentId, reference, Undefined)
<1> DEFINE reference == [payload EXCEPT !.isActive = TRUE]
<1>1. /\ reference \in Documents!DocumentReference
      /\ reference.caseId = payload.caseId
      /\ reference.isActive
      /\ reference.version = 1
      /\ reference.supersedesDocumentId = Undefined
  BY ReferenceActivated, SameVocabulary DEF Documents!addDocumentReference
<1>2. /\ documents[documentId] = NoDocument
      /\ documents' = [documents EXCEPT ![documentId] = reference]
      /\ caseDocuments' = caseDocuments \cup {<<payload.caseId, documentId>>}
  BY DEF Documents!addDocumentReference, Documents!Anchored
<1>3. payload.caseId \in CaseIds
  BY DEF Documents!DocumentReference
<1>4. Undefined \notin cases[payload.caseId].activeDocumentIds
  BY <1>3, ChaincodeAssumption
  DEF Documents!addDocumentReference, Documents!CaseExists, ChaincodeInv,
      IInv, RecordInv, AssuranceCase, Exists
<1>5. Relists(payload.caseId,
              (cases[payload.caseId].activeDocumentIds \ {Undefined})
                \cup {documentId})
  <2>1. cases[payload.caseId].activeDocumentIds \ {Undefined}
          = cases[payload.caseId].activeDocumentIds
    BY <1>4
  <2> QED
    BY <2>1 DEF Documents!addDocumentReference, Documents!CaseExists,
       Documents!putCaseRecord, Relists, Exists
<1> HIDE DEF reference
<1> QED
  BY <1>1, <1>2, <1>5 DEF Anchors, reference

\* updateDocumentVersion anchors the next version of its predecessor.
LEMMA NextVersionAnchors ==
  ASSUME NEW documentId \in DocumentIds,
         NEW payload \in Documents!DocumentReference, NEW actor,
         Documents!updateDocumentVersion(documentId, payload, actor),
         UNCHANGED <<stateIndex, events>>
  PROVE  LET reference == [payload EXCEPT !.isActive = TRUE]
         IN /\ reference \in Documents!DocumentReference
            /\ payload.supersedesDocumentId \in DocumentIds
            /\ Anchors(documentId, reference, payload.supersedesDocumentId)
<1> DEFINE reference == [payload EXCEPT !.isActive = TRUE]
           superseded == payload.supersedesDocumentId
<1>1. /\ reference \in Documents!DocumentReference
      /\ reference.caseId = payload.caseId
      /\ reference.isActive
      /\ reference.version = payload.version
      /\ reference.documentType = payload.documentType
      /\ reference.supersedesDocumentId = superseded
  BY ReferenceActivated
<1>2. superseded \in DocumentIds /\ superseded # Undefined
  BY SameVocabulary
  DEF Documents!updateDocumentVersion, Documents!DocumentReference
<1>3. /\ documents[documentId] = NoDocument
      /\ superseded \in Anchored(payload.caseId)
      /\ documents[superseded].documentType = payload.documentType
      /\ payload.version = documents[superseded].version + 1
      /\ documents' = [documents EXCEPT ![superseded].isActive = FALSE,
                                        ![documentId] = reference]
      /\ caseDocuments' = caseDocuments \cup {<<payload.caseId, documentId>>}
  BY <1>2 DEF Documents!updateDocumentVersion, Documents!Anchored, Anchored
<1>4. Relists(payload.caseId,
              (cases[payload.caseId].activeDocumentIds \ {superseded})
                \cup {documentId})
  BY DEF Documents!updateDocumentVersion, Documents!CaseExists,
     Documents!putCaseRecord, Relists, Exists
<1> HIDE DEF reference, superseded
<1> QED
  BY <1>1, <1>2, <1>3, <1>4 DEF Anchors, reference, superseded

\* Every transaction of the document contract is of one of these two kinds.
LEMMA DocumentSteps ==
  ASSUME ChaincodeInv, Documents!Next, UNCHANGED <<stateIndex, events>>
  PROVE  \E documentId \in DocumentIds :
           \/ \E superseded \in DocumentIds \cup {Undefined},
                 reference \in Documents!DocumentReference :
                Anchors(documentId, reference, superseded)
           \/ \E caseId \in CaseIds : Deactivates(documentId, caseId)
<1>1. PICK documentId \in DocumentIds, actor \in Actors :
        \/ \E payload \in Documents!Payloads :
             \/ Documents!addDocumentReference(documentId, payload, actor)
             \/ Documents!updateDocumentVersion(documentId, payload, actor)
        \/ \E caseId \in CaseIds, justified \in BOOLEAN :
             Documents!deactivateDocument(documentId, caseId, actor, justified)
  BY DEF Documents!Next
<1>2. ASSUME NEW payload \in Documents!Payloads
      PROVE  payload \in Documents!DocumentReference
  <2>1. 1 .. MaxVersion \subseteq Nat /\ {FALSE} \subseteq BOOLEAN
    BY ChaincodeAssumption
  <2>2. AnchoredTypes \subseteq Documents!DOCUMENT_TYPES
    BY ChaincodeAssumption, SameVocabulary
  <2> QED
    BY <2>1, <2>2 DEF Documents!Payloads, Documents!DocumentReference
<1>3. ASSUME NEW payload \in Documents!Payloads,
             Documents!addDocumentReference(documentId, payload, actor)
      PROVE  \E reference \in Documents!DocumentReference :
               Anchors(documentId, reference, Undefined)
  BY <1>2, <1>3, FirstVersionAnchors
<1>4. ASSUME NEW payload \in Documents!Payloads,
             Documents!updateDocumentVersion(documentId, payload, actor)
      PROVE  \E superseded \in DocumentIds,
                reference \in Documents!DocumentReference :
               Anchors(documentId, reference, superseded)
  BY <1>2, <1>4, NextVersionAnchors
<1>5. ASSUME NEW caseId \in CaseIds, NEW justified \in BOOLEAN,
             Documents!deactivateDocument(documentId, caseId, actor, justified)
      PROVE  Deactivates(documentId, caseId)
  BY <1>5 DEF Documents!deactivateDocument, Documents!CaseExists,
     Documents!Anchored, Documents!putCaseRecord, Deactivates, Relists,
     Anchored, Exists
<1> QED
  <2>1. Undefined \in DocumentIds \cup {Undefined}
    OBVIOUS
  <2> QED
    BY <1>1, <1>2, <1>3, <1>4, <1>5, <2>1

-----------------------------------------------------------------------------
(* What is proved of CaseContract survives the document contract.          *)

\* Rewriting the active documents keeps the case contract's invariant.
LEMMA RelistPreserves ==
  ASSUME IInv, NEW caseId \in CaseIds, NEW ids \in SUBSET DocumentIds,
         Relists(caseId, ids)
  PROVE  IInv'
<1> DEFINE d == [cases[caseId] EXCEPT !.activeDocumentIds = ids]
<1>1. cases \in [CaseIds -> AssuranceCase \cup {NoCase}]
  BY DEF IInv, TypeOK
<1>2. RecordInv(cases[caseId]) /\ cases[caseId] # NoCase
  BY DEF Relists, IInv, Exists
<1>3. RecordInv(d)
  BY <1>2, RelistedRecord
<1>4. /\ d \in AssuranceCase
      /\ d # NoCase
      /\ d.currentState = cases[caseId].currentState
      /\ d.auditSequenceNumber = cases[caseId].auditSequenceNumber
  BY <1>2, <1>3, CaseContractAssumption DEF RecordInv, AssuranceCase
<1>5. cases' = [cases EXCEPT ![caseId] = d]
  BY <1>1 DEF Relists
<1>6. stateIndex' = stateIndex /\ events' = events
  BY DEF Relists
<1> HIDE DEF d
<1>7. \A other \in CaseIds :
        /\ Exists(other)' <=> Exists(other)
        /\ Exists(other) =>
             /\ cases'[other].currentState = cases[other].currentState
             /\ cases'[other].auditSequenceNumber = cases[other].auditSequenceNumber
        /\ Exists(other)' => RecordInv(cases'[other])
        /\ Trail(other)' = Trail(other)
  BY <1>1, <1>2, <1>3, <1>4, <1>5, <1>6 DEF Exists, Trail, IInv
<1>8. TypeOK'
  BY <1>1, <1>4, <1>5, <1>6 DEF TypeOK, IInv
<1>9. StateIndexExact'
  BY <1>6, <1>7 DEF StateIndexExact, IInv
<1>10. TrailGapFree'
  BY <1>7 DEF TrailGapFree, IInv
<1>11. TrailReplays'
  <2> SUFFICES ASSUME NEW other \in CaseIds, NEW e \in Trail(other)'
               PROVE  /\ e.sequence = 1 <=> e.actionType = "create_case"
                      /\ e.sequence = cases'[other].auditSequenceNumber
                           => e.newState = cases'[other].currentState
                      /\ \A f \in Trail(other)' :
                           f.sequence = e.sequence + 1
                             => f.previousState = e.newState
    BY DEF TrailReplays
  <2>1. e \in Trail(other) /\ Trail(other)' = Trail(other)
    BY <1>7
  <2>2. Exists(other)
    BY <2>1 DEF TrailGapFree, IInv
  <2> QED
    BY <1>7, <2>1, <2>2 DEF TrailReplays, IInv
<1>12. (\A other \in CaseIds : Exists(other) => RecordInv(cases[other]))'
  BY <1>7
<1> QED
  BY <1>8, <1>9, <1>10, <1>11, <1>12 DEF IInv

-----------------------------------------------------------------------------
(* The document invariants.                                                *)

\* A transaction of CaseContract creates a case, which has no documents yet, or
\* adds to the active documents of one.
LEMMA CaseStepKeepsLists ==
  ASSUME IInv, CaseStep
  PROVE  \A caseId \in CaseIds :
           /\ Exists(caseId) => Exists(caseId)'
           /\ Exists(caseId) => cases[caseId].activeDocumentIds
                                  \subseteq cases'[caseId].activeDocumentIds
<1>1. cases \in [CaseIds -> AssuranceCase \cup {NoCase}]
  BY DEF IInv, TypeOK
<1>2. PICK caseId \in CaseIds, actor \in UserClaims :
        \/ createCase(caseId, actor)
        \/ \E rule \in TRANSITIONS, ids \in SUBSET DocumentIds,
              justified \in BOOLEAN : \E types :
             performTransition(caseId, rule, actor, types, ids, justified)
  BY DEF CaseStep
<1>3. CASE createCase(caseId, actor)
  BY <1>1, <1>3 DEF createCase, putCase, Exists
<1>4. ASSUME NEW rule \in TRANSITIONS, NEW ids \in SUBSET DocumentIds,
             NEW justified \in BOOLEAN, NEW types,
             performTransition(caseId, rule, actor, types, ids, justified)
      PROVE  /\ \A other \in CaseIds \ {caseId} : cases'[other] = cases[other]
             /\ Exists(caseId)'
             /\ cases[caseId].activeDocumentIds
                  \subseteq cases'[caseId].activeDocumentIds
  <2> DEFINE d == applyTransition(cases[caseId], rule, actor, ids)
  <2>1. cases' = [cases EXCEPT ![caseId] = d]
    BY <1>4 DEF performTransition, putCase
  <2>2. RecordInv(cases[caseId])
    BY <1>4 DEF performTransition, IInv
  <2>3. d \in AssuranceCase
    BY <1>4, <2>2, TransitionPreserves DEF performTransition, RecordInv
  <2>4. cases[caseId].activeDocumentIds \subseteq d.activeDocumentIds
    BY DEF applyTransition, nextActiveDocuments
  <2> HIDE DEF d
  <2> QED
    BY <1>1, <2>1, <2>3, <2>4, CaseContractAssumption DEF Exists
<1> QED
  BY <1>2, <1>3, <1>4 DEF Exists

\* A transaction of CaseContract keeps the chaincode's invariant.
LEMMA CaseStepPreserves ==
  ASSUME ChaincodeInv, CaseStep, UNCHANGED <<documents, caseDocuments>>
  PROVE  ChaincodeInv'
<1>1. IInv'
  BY StepIInv DEF ChaincodeInv
<1>2. \A caseId \in CaseIds : Anchored(caseId)' = Anchored(caseId)
  BY DEF Anchored
<1>3. \A caseId \in CaseIds :
        /\ Exists(caseId) => Exists(caseId)'
        /\ Exists(caseId) => cases[caseId].activeDocumentIds
                               \subseteq cases'[caseId].activeDocumentIds
  BY CaseStepKeepsLists DEF ChaincodeInv
<1>4. ReferencesTyped'
  BY DEF ChaincodeInv, ReferencesTyped
<1>5. CaseDocumentsExact'
  BY <1>2, <1>3 DEF ChaincodeInv, CaseDocumentsExact
<1>6. ActiveDocumentsListed'
  <2> SUFFICES ASSUME NEW caseId \in CaseIds, NEW d \in Anchored(caseId)',
                      documents[d].isActive
               PROVE  d \in cases'[caseId].activeDocumentIds
    BY DEF ActiveDocumentsListed
  <2>1. d \in Anchored(caseId) /\ d \in DocumentIds
    BY <1>2 DEF Anchored
  <2>2. Exists(caseId)
    BY <2>1 DEF ChaincodeInv, CaseDocumentsExact
  <2>3. d \in cases[caseId].activeDocumentIds
    BY <2>1 DEF ChaincodeInv, ActiveDocumentsListed
  <2> QED
    BY <1>3, <2>2, <2>3
<1>7. VersionChainSound'
  BY <1>2 DEF ChaincodeInv, VersionChainSound
<1> QED
  BY <1>1, <1>4, <1>5, <1>6, <1>7 DEF ChaincodeInv

\* Anchoring a reference keeps the chaincode's invariant.
LEMMA AnchorPreserves ==
  ASSUME ChaincodeInv, NEW documentId \in DocumentIds,
         NEW superseded \in DocumentIds \cup {Undefined},
         NEW reference \in Documents!DocumentReference,
         Anchors(documentId, reference, superseded)
  PROVE  ChaincodeInv'
<1> DEFINE home == reference.caseId
           list == (cases[home].activeDocumentIds \ {superseded})
                     \cup {documentId}
<1>1. /\ home \in CaseIds
      /\ reference.version \in Nat
      /\ reference # NoDocument
  BY NoDocumentAssumption DEF Documents!DocumentReference
<1>2. documents \in [DocumentIds -> Documents!DocumentReference \cup {NoDocument}]
  BY DEF ChaincodeInv, ReferencesTyped
<1>3. Relists(home, list) /\ list \in SUBSET DocumentIds
  BY <1>1 DEF Anchors, Relists, ChaincodeInv, IInv, RecordInv, AssuranceCase
<1>4. /\ cases \in [CaseIds -> AssuranceCase \cup {NoCase}]
      /\ \A caseId \in CaseIds : Exists(caseId) => cases[caseId] \in AssuranceCase
  BY DEF ChaincodeInv, IInv, TypeOK, RecordInv
<1>5. /\ \A caseId \in CaseIds : Exists(caseId)' <=> Exists(caseId)
      /\ cases'[home].activeDocumentIds = list
      /\ \A caseId \in CaseIds \ {home} : cases'[caseId] = cases[caseId]
  <2>1. cases' = [cases EXCEPT ![home] = [cases[home] EXCEPT !.activeDocumentIds = list]]
    BY <1>1, <1>3, <1>4 DEF Relists
  <2>2. RecordInv([cases[home] EXCEPT !.activeDocumentIds = list])
    BY <1>1, <1>3, RelistedRecord DEF Relists, ChaincodeInv, IInv
  <2>3. [cases[home] EXCEPT !.activeDocumentIds = list] # NoCase
    BY <2>2, CaseContractAssumption DEF RecordInv
  <2>4. [cases[home] EXCEPT !.activeDocumentIds = list].activeDocumentIds = list
    BY <1>1, <1>3, <1>4 DEF Relists, AssuranceCase
  <2> HIDE DEF list
  <2> QED
    BY <1>1, <1>3, <1>4, <2>1, <2>3, <2>4 DEF Exists, Relists
<1>6. documents[documentId] = NoDocument /\ superseded # documentId
  BY NoDocumentAssumption, ChaincodeAssumption DEF Anchors, Anchored
<1>7. documents'[documentId] = reference
  BY <1>2, <1>6 DEF Anchors
<1>8. \A d \in DocumentIds \ {documentId} :
        /\ documents[d] = NoDocument => documents'[d] = NoDocument
        /\ documents[d] # NoDocument =>
             /\ documents'[d] \in Documents!DocumentReference
             /\ documents'[d].caseId = documents[d].caseId
             /\ documents'[d].documentType = documents[d].documentType
             /\ documents'[d].version = documents[d].version
             /\ documents'[d].supersedesDocumentId
                  = documents[d].supersedesDocumentId
             /\ documents'[d].isActive => documents[d].isActive /\ d # superseded
  <2> SUFFICES ASSUME NEW d \in DocumentIds \ {documentId}
               PROVE  /\ documents[d] = NoDocument => documents'[d] = NoDocument
                      /\ documents[d] # NoDocument =>
                           /\ documents'[d] \in Documents!DocumentReference
                           /\ documents'[d].caseId = documents[d].caseId
                           /\ documents'[d].documentType = documents[d].documentType
                           /\ documents'[d].version = documents[d].version
                           /\ documents'[d].supersedesDocumentId
                                = documents[d].supersedesDocumentId
                           /\ documents'[d].isActive
                                => documents[d].isActive /\ d # superseded
    OBVIOUS
  <2>1. CASE d # superseded
    <3>1. documents'[d] = documents[d]
      BY <1>2, <2>1 DEF Anchors
    <3> QED
      BY <1>2, <2>1, <3>1
  <2>2. CASE d = superseded
    <3>1. /\ documents'[d] = [documents[d] EXCEPT !.isActive = FALSE]
          /\ documents[d] # NoDocument
      BY <1>2, <2>2, ChaincodeAssumption DEF Anchors, Anchored
    <3>2. documents[d] \in Documents!DocumentReference
      BY <1>2, <3>1
    <3> QED
      BY <2>2, <3>1, <3>2 DEF Documents!DocumentReference
  <2> QED
    BY <2>1, <2>2
<1> HIDE DEF list
<1>9. \A caseId \in CaseIds :
        Anchored(caseId)' = Anchored(caseId)
                              \cup (IF caseId = home THEN {documentId} ELSE {})
  BY <1>1, <1>6, <1>7, <1>8, NoDocumentAssumption DEF Anchored
<1>10. IInv'
  BY <1>1, <1>3, RelistPreserves DEF ChaincodeInv
<1>11. ReferencesTyped'
  <2>1. documents' \in [DocumentIds -> Documents!DocumentReference \cup {NoDocument}]
    <3>1. \A d \in DocumentIds :
            documents'[d] \in Documents!DocumentReference \cup {NoDocument}
      BY <1>2, <1>7, <1>8
    <3>2. documents' = [d \in DocumentIds |-> documents'[d]]
      BY <1>2 DEF Anchors
    <3> QED
      BY <3>1, <3>2
  <2>2. reference.version >= 1
    <3>1. CASE superseded = Undefined
      BY <3>1 DEF Anchors
    <3>2. CASE superseded # Undefined
      <4>1. superseded \in DocumentIds /\ documents[superseded] # NoDocument
        BY <3>2 DEF Anchors, Anchored
      <4>2. documents[superseded].version >= 1
            /\ documents[superseded] \in Documents!DocumentReference
        BY <1>2, <4>1 DEF ChaincodeInv, ReferencesTyped
      <4>3. documents[superseded].version \in Nat
        BY <4>2 DEF Documents!DocumentReference
      <4> QED
        BY <3>2, <4>2, <4>3 DEF Anchors
    <3> QED
      BY <3>1, <3>2
  <2>3. \A d \in DocumentIds : documents'[d] # NoDocument => documents'[d].version >= 1
    BY <1>7, <1>8, <2>2 DEF ChaincodeInv, ReferencesTyped
  <2> QED
    BY <2>1, <2>3 DEF ReferencesTyped
<1>12. CaseDocumentsExact'
  <2>1. caseDocuments' = caseDocuments \cup {<<home, documentId>>}
    BY DEF Anchors
  <2>2. Exists(home)
    BY <1>3 DEF Relists
  <2> QED
    BY <1>1, <1>5, <1>9, <2>1, <2>2 DEF ChaincodeInv, CaseDocumentsExact
<1>13. ActiveDocumentsListed'
  <2> SUFFICES ASSUME NEW caseId \in CaseIds, NEW d \in Anchored(caseId)',
                      documents'[d].isActive
               PROVE  d \in cases'[caseId].activeDocumentIds
    BY DEF ActiveDocumentsListed
  <2>1. CASE d = documentId
    <3>1. caseId = home
      BY <1>7, <2>1 DEF Anchored
    <3> QED
      BY <1>5, <2>1, <3>1 DEF list
  <2>2. CASE d # documentId
    <3>1. d \in Anchored(caseId) /\ d \in DocumentIds
      BY <1>9, <2>2 DEF Anchored
    <3>2. documents[d].isActive /\ d # superseded
      BY <1>8, <2>2, <3>1 DEF Anchored
    <3>3. d \in cases[caseId].activeDocumentIds
      BY <3>1, <3>2 DEF ChaincodeInv, ActiveDocumentsListed
    <3> QED
      BY <1>5, <3>2, <3>3 DEF list
  <2> QED
    BY <2>1, <2>2
<1>14. VersionChainSound'
  <2> SUFFICES ASSUME NEW caseId \in CaseIds, NEW d \in Anchored(caseId)'
               PROVE  IF documents'[d].version = 1
                      THEN documents'[d].supersedesDocumentId = Undefined
                      ELSE \E p \in Anchored(caseId)' :
                             /\ p = documents'[d].supersedesDocumentId
                             /\ documents'[p].documentType
                                  = documents'[d].documentType
                             /\ documents'[p].version = documents'[d].version - 1
                             /\ ~documents'[p].isActive
    BY DEF VersionChainSound
  <2>1. CASE d = documentId
    <3>1. caseId = home
      BY <1>7, <2>1 DEF Anchored
    <3>2. CASE superseded = Undefined
      BY <1>7, <2>1, <3>2 DEF Anchors
    <3>3. CASE superseded # Undefined
      <4>1. /\ superseded \in Anchored(home)
            /\ documents[superseded].documentType = reference.documentType
            /\ reference.version = documents[superseded].version + 1
            /\ reference.supersedesDocumentId = superseded
        BY <3>3 DEF Anchors
      <4>2. superseded \in DocumentIds \ {documentId}
            /\ documents[superseded] # NoDocument
        BY <1>6, <4>1 DEF Anchored
      <4>3. documents[superseded].version >= 1
            /\ documents[superseded].version \in Nat
        BY <1>2, <4>2 DEF ChaincodeInv, ReferencesTyped, Documents!DocumentReference
      <4>4. superseded \in Anchored(caseId)'
        BY <1>1, <1>9, <3>1, <4>1
      <4>5. ~documents'[superseded].isActive
        BY <1>8, <4>2
      <4> QED
        BY <1>7, <1>8, <2>1, <4>1, <4>2, <4>3, <4>4, <4>5
    <3> QED
      BY <3>2, <3>3
  <2>2. CASE d # documentId
    <3>1. d \in Anchored(caseId) /\ d \in DocumentIds /\ documents[d] # NoDocument
      BY <1>9, <2>2 DEF Anchored
    <3>2. IF documents[d].version = 1
          THEN documents[d].supersedesDocumentId = Undefined
          ELSE \E p \in Anchored(caseId) :
                 /\ p = documents[d].supersedesDocumentId
                 /\ documents[p].documentType = documents[d].documentType
                 /\ documents[p].version = documents[d].version - 1
                 /\ ~documents[p].isActive
      BY <3>1 DEF ChaincodeInv, VersionChainSound
    <3>3. \A p \in Anchored(caseId) :
            /\ p \in DocumentIds \ {documentId} /\ documents[p] # NoDocument
            /\ p \in Anchored(caseId)'
      BY <1>6, <1>9 DEF Anchored
    <3> QED
      BY <1>8, <2>2, <3>1, <3>2, <3>3
  <2> QED
    BY <2>1, <2>2
<1> QED
  BY <1>10, <1>11, <1>12, <1>13, <1>14 DEF ChaincodeInv

\* Switching a reference off keeps the chaincode's invariant.
LEMMA DeactivationPreserves ==
  ASSUME ChaincodeInv, NEW documentId \in DocumentIds, NEW home \in CaseIds,
         Deactivates(documentId, home)
  PROVE  ChaincodeInv'
<1> DEFINE list == cases[home].activeDocumentIds \ {documentId}
<1>1. documents \in [DocumentIds -> Documents!DocumentReference \cup {NoDocument}]
  BY DEF ChaincodeInv, ReferencesTyped
<1>2. Relists(home, list) /\ list \in SUBSET DocumentIds
  BY DEF Deactivates, Relists, ChaincodeInv, IInv, RecordInv, AssuranceCase
<1>3. /\ \A caseId \in CaseIds : Exists(caseId)' <=> Exists(caseId)
      /\ cases'[home].activeDocumentIds = list
      /\ \A caseId \in CaseIds \ {home} : cases'[caseId] = cases[caseId]
  <2> DEFINE d == [cases[home] EXCEPT !.activeDocumentIds = list]
  <2>1. cases \in [CaseIds -> AssuranceCase \cup {NoCase}]
    BY DEF ChaincodeInv, IInv, TypeOK
  <2>2. cases[home] \in AssuranceCase
    BY <1>2 DEF Relists, ChaincodeInv, IInv, RecordInv
  <2>3. cases' = [cases EXCEPT ![home] = d]
    BY <1>2, <2>1 DEF Relists
  <2>4. d # NoCase
    BY <1>2, RelistedRecord, CaseContractAssumption
    DEF Relists, ChaincodeInv, IInv, RecordInv
  <2>5. d.activeDocumentIds = list
    BY <2>2 DEF AssuranceCase
  <2> HIDE DEF d, list
  <2> QED
    BY <1>2, <2>1, <2>3, <2>4, <2>5 DEF Exists, Relists
<1> HIDE DEF list
<1>4. /\ \A d \in DocumentIds \ {documentId} : documents'[d] = documents[d]
      /\ documents[documentId] \in Documents!DocumentReference
      /\ documents'[documentId] = [documents[documentId] EXCEPT !.isActive = FALSE]
  BY <1>1 DEF Deactivates, Anchored
<1>5. /\ documents'[documentId] \in Documents!DocumentReference
      /\ documents'[documentId].caseId = documents[documentId].caseId
      /\ documents'[documentId].documentType = documents[documentId].documentType
      /\ documents'[documentId].version = documents[documentId].version
      /\ documents'[documentId].supersedesDocumentId
           = documents[documentId].supersedesDocumentId
      /\ ~documents'[documentId].isActive
  BY <1>4 DEF Documents!DocumentReference
<1>6. \A caseId \in CaseIds : Anchored(caseId)' = Anchored(caseId)
  BY <1>4, <1>5, NoDocumentAssumption DEF Anchored
<1>7. IInv'
  BY <1>2, RelistPreserves DEF ChaincodeInv
<1>8. ReferencesTyped'
  <2>1. \A d \in DocumentIds :
          documents'[d] \in Documents!DocumentReference \cup {NoDocument}
    BY <1>1, <1>4, <1>5
  <2>2. documents' = [d \in DocumentIds |-> documents'[d]]
    BY <1>1 DEF Deactivates
  <2>3. documents' \in [DocumentIds -> Documents!DocumentReference \cup {NoDocument}]
    BY <2>1, <2>2
  <2>4. \A d \in DocumentIds : documents'[d] # NoDocument => documents'[d].version >= 1
    BY <1>4, <1>5, NoDocumentAssumption DEF ChaincodeInv, ReferencesTyped
  <2> QED
    BY <2>3, <2>4 DEF ReferencesTyped
<1>9. CaseDocumentsExact'
  BY <1>3, <1>6 DEF ChaincodeInv, CaseDocumentsExact, Deactivates
<1>10. ActiveDocumentsListed'
  <2> SUFFICES ASSUME NEW caseId \in CaseIds, NEW d \in Anchored(caseId)',
                      documents'[d].isActive
               PROVE  d \in cases'[caseId].activeDocumentIds
    BY DEF ActiveDocumentsListed
  <2>1. d \in Anchored(caseId) /\ d \in DocumentIds /\ d # documentId
    BY <1>5, <1>6 DEF Anchored
  <2>2. d \in cases[caseId].activeDocumentIds
    BY <1>4, <2>1 DEF ChaincodeInv, ActiveDocumentsListed
  <2> QED
    BY <1>3, <2>1, <2>2 DEF list
<1>11. VersionChainSound'
  <2>1. \A d \in DocumentIds :
          /\ documents'[d].documentType = documents[d].documentType
          /\ documents'[d].version = documents[d].version
          /\ documents'[d].supersedesDocumentId = documents[d].supersedesDocumentId
          /\ ~documents[d].isActive => ~documents'[d].isActive
    BY <1>4, <1>5
  <2>2. \A caseId \in CaseIds : Anchored(caseId) \subseteq DocumentIds
    BY DEF Anchored
  <2> QED
    BY <1>6, <2>1, <2>2 DEF ChaincodeInv, VersionChainSound
<1> QED
  BY <1>7, <1>8, <1>9, <1>10, <1>11 DEF ChaincodeInv

-----------------------------------------------------------------------------
(* Any transaction of either contract, whoever submits it: what the other  *)
(* modules do to the ledger.                                               *)

LedgerStep ==
  \/ CaseStep /\ UNCHANGED <<documents, caseDocuments>>
  \/ \E documentId \in DocumentIds :
       \/ \E superseded \in DocumentIds \cup {Undefined},
             reference \in Documents!DocumentReference :
            Anchors(documentId, reference, superseded)
       \/ \E caseId \in CaseIds : Deactivates(documentId, caseId)

\* Nothing of an anchored reference changes but its active flag, which is only
\* ever switched off.
ReferencesKept ==
  \A d \in DocumentIds : documents[d] # NoDocument =>
    \/ documents'[d] = documents[d]
    \/ documents'[d] = [documents[d] EXCEPT !.isActive = FALSE]

\* What a transaction keeps: the invariant, the events and the references.
LEMMA LedgerStepKeeps ==
  ASSUME ChaincodeInv, LedgerStep
  PROVE  ChaincodeInv' /\ events \subseteq events' /\ ReferencesKept
<1>1. documents \in [DocumentIds -> Documents!DocumentReference \cup {NoDocument}]
  BY DEF ChaincodeInv, ReferencesTyped
<1>2. CASE CaseStep /\ UNCHANGED <<documents, caseDocuments>>
  <2>1. IInv
    BY DEF ChaincodeInv
  <2>2. events \subseteq events'
    BY <1>2, <2>1, StepIInv
  <2> QED
    BY <1>2, <2>2, CaseStepPreserves DEF ReferencesKept
<1>3. ASSUME NEW documentId \in DocumentIds,
             NEW superseded \in DocumentIds \cup {Undefined},
             NEW reference \in Documents!DocumentReference,
             Anchors(documentId, reference, superseded)
      PROVE  ChaincodeInv' /\ events \subseteq events' /\ ReferencesKept
  <2>1. ReferencesKept
    BY <1>1, <1>3 DEF Anchors, ReferencesKept
  <2> QED
    BY <1>3, <2>1, AnchorPreserves DEF Anchors, Relists
<1>4. ASSUME NEW documentId \in DocumentIds, NEW caseId \in CaseIds,
             Deactivates(documentId, caseId)
      PROVE  ChaincodeInv' /\ events \subseteq events' /\ ReferencesKept
  <2>1. ReferencesKept
    BY <1>1, <1>4 DEF Deactivates, ReferencesKept
  <2> QED
    BY <1>4, <2>1, DeactivationPreserves DEF Deactivates, Relists
<1> QED
  BY <1>2, <1>3, <1>4 DEF LedgerStep

\* A step that leaves the ledger alone keeps them too.
LEMMA LedgerUnchangedKeeps ==
  ASSUME ChaincodeInv, UNCHANGED chaincodeVars
  PROVE  ChaincodeInv' /\ events \subseteq events' /\ ReferencesKept
<1>1. UNCHANGED vars /\ UNCHANGED <<documents, caseDocuments>>
  BY DEF chaincodeVars
<1>2. IInv'
  BY <1>1, NextIInv DEF ChaincodeInv
<1> QED
  BY <1>1, <1>2 DEF ChaincodeInv, ReferencesTyped, CaseDocumentsExact,
     ActiveDocumentsListed, VersionChainSound, Anchored, Exists, vars,
     ReferencesKept

\* The transactions of the chaincode's own callers are such steps.
LEMMA NextLedgerSteps ==
  ASSUME ChaincodeInv, ChaincodeNext
  PROVE  LedgerStep
BY NextCases, DocumentSteps DEF ChaincodeNext, LedgerStep

-----------------------------------------------------------------------------
(* The invariant. *)

\* It holds of the empty world state.
LEMMA ChaincodeInvInit == ChaincodeInit => ChaincodeInv
<1> SUFFICES ASSUME ChaincodeInit PROVE ChaincodeInv
  OBVIOUS
<1>1. IInv
  BY InitIInv DEF ChaincodeInit
<1>2. \A d \in DocumentIds : documents[d] = NoDocument
  BY DEF ChaincodeInit, Documents!Init
<1>3. ReferencesTyped
  BY DEF ChaincodeInit, Documents!Init, ReferencesTyped
<1>4. \A caseId \in CaseIds : Anchored(caseId) = {}
  BY <1>2 DEF Anchored
<1>5. CaseDocumentsExact
  BY <1>4 DEF CaseDocumentsExact, ChaincodeInit, Documents!Init
<1> QED
  BY <1>1, <1>3, <1>4, <1>5
  DEF ChaincodeInv, ActiveDocumentsListed, VersionChainSound

\* Every transaction of either contract preserves it.
LEMMA ChaincodeInvNext ==
  ChaincodeInv /\ [ChaincodeNext]_chaincodeVars => ChaincodeInv'
BY NextLedgerSteps, LedgerStepKeeps, LedgerUnchangedKeeps

\* It holds in every reachable state of the chaincode.
LEMMA ChaincodeInvariance == ChaincodeSpec => []ChaincodeInv
BY ChaincodeInvInit, ChaincodeInvNext, PTL DEF ChaincodeSpec

-----------------------------------------------------------------------------
(* The theorems. *)

\* listCaseDocuments returns the references of a case, all of them and no
\* other, and no link is dangling (addDocumentReference, updateDocumentVersion).
THEOREM CaseDocumentsCorrect == ChaincodeSpec => []CaseDocumentsExact
<1>1. ChaincodeInv => CaseDocumentsExact
  BY DEF ChaincodeInv
<1> QED
  BY <1>1, ChaincodeInvariance, PTL

\* No active reference is missing from the record that both contracts rewrite.
THEOREM ActiveDocumentsCorrect == ChaincodeSpec => []ActiveDocumentsListed
<1>1. ChaincodeInv => ActiveDocumentsListed
  BY DEF ChaincodeInv
<1> QED
  BY <1>1, ChaincodeInvariance, PTL

\* Every version follows the one it supersedes, which stays inactive
\* (updateDocumentVersion).
THEOREM VersionChainCorrect == ChaincodeSpec => []VersionChainSound
<1>1. ChaincodeInv => VersionChainSound
  BY DEF ChaincodeInv
<1> QED
  BY <1>1, ChaincodeInvariance, PTL

\* An anchored reference never changes but for its active flag, which is never
\* set again.
THEOREM ReferencesAreImmutable == ChaincodeSpec => ReferencesImmutable
<1>1. ChaincodeInv /\ [ChaincodeNext]_chaincodeVars =>
        [\A d \in DocumentIds : documents[d] # NoDocument =>
           \/ documents'[d] = documents[d]
           \/ documents'[d] = [documents[d] EXCEPT !.isActive = FALSE]
        ]_chaincodeVars
  BY NextLedgerSteps, LedgerStepKeeps DEF ReferencesKept
<1> QED
  BY <1>1, ChaincodeInvariance, PTL DEF ChaincodeSpec, ReferencesImmutable

\* What is proved of the case contract alone holds of the deployed chaincode:
\* the index and the trail are exact and every record is sound, although
\* document transactions rewrite the records.
THEOREM CaseInvariantsCarryOver ==
  ChaincodeSpec => [](/\ StateIndexExact /\ TrailGapFree /\ TrailReplays
                      /\ InformationRequestResumable /\ AmendmentKeepsBaseline
                      /\ IssuanceMatchesState /\ ApprovalIsEndorsed
                      /\ ReviewPrecedesGrant)
<1>1. ChaincodeInv =>
        /\ StateIndexExact /\ TrailGapFree /\ TrailReplays
        /\ InformationRequestResumable /\ AmendmentKeepsBaseline
        /\ IssuanceMatchesState /\ ApprovalIsEndorsed
        /\ ReviewPrecedesGrant
  BY DEF ChaincodeInv, IInv, RecordInv, InformationRequestResumable,
         AmendmentKeepsBaseline, IssuanceMatchesState, ApprovalIsEndorsed,
         ReviewPrecedesGrant
<1> QED
  BY <1>1, ChaincodeInvariance, PTL

-----------------------------------------------------------------------------
(* The ledger, whoever submits transactions to it: backend, simulator or   *)
(* any other client.  The workflow keeps its promises to all of them.      *)

LedgerSpec == ChaincodeInit /\ [][LedgerStep]_chaincodeVars

\* A transaction of the document contract relists one case.
LEMMA DocumentsRelist ==
  ASSUME ChaincodeInv, NEW documentId \in DocumentIds,
         \/ \E superseded \in DocumentIds \cup {Undefined},
               reference \in Documents!DocumentReference :
              Anchors(documentId, reference, superseded)
         \/ \E caseId \in CaseIds : Deactivates(documentId, caseId)
  PROVE  \E caseId \in CaseIds, ids \in SUBSET DocumentIds :
           Relists(caseId, ids)
<1>1. ASSUME NEW caseId \in CaseIds, Exists(caseId)
      PROVE  cases[caseId].activeDocumentIds \in SUBSET DocumentIds
  BY <1>1 DEF ChaincodeInv, IInv, RecordInv, AssuranceCase
<1>2. ASSUME NEW superseded \in DocumentIds \cup {Undefined},
             NEW reference \in Documents!DocumentReference,
             Anchors(documentId, reference, superseded)
      PROVE  \E caseId \in CaseIds, ids \in SUBSET DocumentIds :
               Relists(caseId, ids)
  <2>1. PICK caseId \in CaseIds : caseId = reference.caseId
    BY DEF Documents!DocumentReference
  <2>2. PICK ids : ids = (cases[caseId].activeDocumentIds \ {superseded})
                           \cup {documentId}
    OBVIOUS
  <2>3. Relists(caseId, ids)
    BY <1>2, <2>1, <2>2 DEF Anchors
  <2>4. ids \in SUBSET DocumentIds
    BY <1>1, <2>2, <2>3 DEF Relists
  <2> QED
    BY <2>3, <2>4
<1>3. ASSUME NEW caseId \in CaseIds, Deactivates(documentId, caseId)
      PROVE  \E ids \in SUBSET DocumentIds : Relists(caseId, ids)
  <2>1. Relists(caseId, cases[caseId].activeDocumentIds \ {documentId})
    BY <1>3 DEF Deactivates
  <2> QED
    BY <1>1, <2>1 DEF Relists
<1> QED
  BY <1>2, <1>3

\* What relisting a case leaves as it was: all but one field of one record.
LEMMA RelistLeaves ==
  ASSUME IInv, NEW caseId \in CaseIds, NEW ids \in SUBSET DocumentIds,
         Relists(caseId, ids), NEW other \in CaseIds
  PROVE  /\ Exists(other)' <=> Exists(other)
         /\ Trail(other)' = Trail(other)
         /\ PhaseOf(cases'[other]) = PhaseOf(cases[other])
         /\ VersionOf(cases'[other]) = VersionOf(cases[other])
         /\ Exists(other) =>
              /\ EffectiveLane(cases'[other]) = EffectiveLane(cases[other])
              /\ cases'[other].currentAssuranceVersion
                   = cases[other].currentAssuranceVersion
              /\ cases'[other].pendingAmendmentReviewMode
                   = cases[other].pendingAmendmentReviewMode
              /\ cases'[other].amendmentBaseState
                   = cases[other].amendmentBaseState
<1>1. /\ cases \in [CaseIds -> AssuranceCase \cup {NoCase}]
      /\ cases' = [cases EXCEPT ![caseId].activeDocumentIds = ids]
      /\ cases[caseId] # NoCase
      /\ events' = events
  BY DEF IInv, TypeOK, Relists, Exists
<1>2. Trail(other)' = Trail(other)
  BY <1>1 DEF Trail
<1>3. CASE other # caseId
  <2>1. cases'[other] = cases[other]
    BY <1>1, <1>3
  <2> QED
    BY <1>2, <2>1 DEF Exists
<1>4. CASE other = caseId
  <2>1. PICK c \in AssuranceCase : c = cases[other]
    BY <1>1, <1>4
  <2>2. PICK d : d = [c EXCEPT !.activeDocumentIds = ids]
    OBVIOUS
  <2>3. cases'[other] = d
    BY <1>1, <1>4, <2>1, <2>2
  <2>4. /\ d.currentState = c.currentState
        /\ d.currentSubstate = c.currentSubstate
        /\ d.currentAssuranceVersion = c.currentAssuranceVersion
        /\ d.pendingAmendmentReviewMode = c.pendingAmendmentReviewMode
        /\ d.amendmentBaseState = c.amendmentBaseState
    BY <2>1, <2>2 DEF AssuranceCase
  <2>5. d # NoCase
    BY <1>4, <2>1, <2>2, RelistedRecord, CaseContractAssumption
    DEF IInv, RecordInv, Relists
  <2>6. c # NoCase
    BY <1>1, <1>4, <2>1
  <2>7. PhaseOf(d) = PhaseOf(c) /\ VersionOf(d) = VersionOf(c)
    BY <2>4, <2>5, <2>6 DEF PhaseOf, VersionOf
  <2>8. EffectiveLane(d) = EffectiveLane(c)
    BY <2>4 DEF EffectiveLane
  <2> QED
    BY <1>2, <2>1, <2>3, <2>4, <2>5, <2>6, <2>7, <2>8 DEF Exists
<1> QED
  BY <1>3, <1>4

\* It keeps what the trail says of the records, and restores nothing.
LEMMA RelistKeepsHistory ==
  ASSUME HistoryInv, NEW caseId \in CaseIds, NEW ids \in SUBSET DocumentIds,
         Relists(caseId, ids)
  PROVE  HistoryInv' /\ \A other \in CaseIds : Restored(other)
<1>1. IInv /\ IInv' /\ events' = events
  BY RelistPreserves DEF HistoryInv, Relists
<1>2. ASSUME NEW other \in CaseIds
      PROVE  /\ VersionCounted(other)'
             /\ BaselineRecorded(other)'
             /\ LaneReached(other)'
             /\ InstrumentsReviewed(other)'
             /\ Restored(other)
  <2>1. /\ Exists(other)' <=> Exists(other)
        /\ Trail(other)' = Trail(other)
        /\ Exists(other) =>
             /\ EffectiveLane(cases'[other]) = EffectiveLane(cases[other])
             /\ cases'[other].currentAssuranceVersion
                  = cases[other].currentAssuranceVersion
             /\ cases'[other].pendingAmendmentReviewMode
                  = cases[other].pendingAmendmentReviewMode
             /\ cases'[other].amendmentBaseState
                  = cases[other].amendmentBaseState
    BY <1>1, RelistLeaves
  <2>2. InstrumentsOf(other)' = InstrumentsOf(other)
    BY <2>1 DEF InstrumentsOf
  <2>3. VersionCounted(other)'
    BY <2>1, <2>2 DEF HistoryInv, VersionCounted
  <2>4. BaselineRecorded(other)'
    BY <2>1 DEF HistoryInv, BaselineRecorded
  <2>5. LaneReached(other)'
    BY <2>1 DEF HistoryInv, LaneReached, DoneInRound
  <2>6. InstrumentsReviewed(other)'
    <3> SUFFICES ASSUME NEW e \in Trail(other),
                        \/ e.actionType = "issue_assurance"
                        \/ /\ e.actionType = "amend_assurance"
                           /\ e.previousState = "approved",
                        NEW step \in ReviewSteps
                 PROVE  PrecededSince(e, step, RoundOpeners)'
      BY <2>1 DEF InstrumentsReviewed, Reviewed
    <3>1. PrecededSince(e, step, RoundOpeners)
      BY DEF HistoryInv, InstrumentsReviewed, Reviewed
    <3> QED
      BY <1>1, <3>1 DEF PrecededSince, Trail
  <2>7. Restored(other)
    BY <2>1 DEF Restored
  <2> QED
    BY <2>3, <2>4, <2>5, <2>6, <2>7
<1> QED
  BY <1>1, <1>2 DEF HistoryInv

LedgerInv == ChaincodeInv /\ HistoryInv

\* What every transaction keeps.
LEMMA LedgerStepHistory ==
  ASSUME LedgerInv, LedgerStep
  PROVE  /\ LedgerInv'
         /\ events \subseteq events'
         /\ ReferencesKept
         /\ \A caseId \in CaseIds : Restored(caseId)
         /\ Lifecycle!Next \/ UNCHANGED Lifecycle!lifecycleVars
<1>1. ChaincodeInv' /\ events \subseteq events' /\ ReferencesKept
  BY LedgerStepKeeps DEF LedgerInv
<1>2. CASE CaseStep
  BY <1>1, <1>2, StepHistoryInv, StepRestores, StepOfLifecycle
  DEF LedgerInv, ChaincodeInv
<1>3. CASE ~CaseStep
  <2>1. PICK caseId \in CaseIds, ids \in SUBSET DocumentIds :
          Relists(caseId, ids)
    BY <1>3, DocumentsRelist DEF LedgerInv, LedgerStep
  <2>2. HistoryInv' /\ \A other \in CaseIds : Restored(other)
    BY <2>1, RelistKeepsHistory DEF LedgerInv
  <2>3. UNCHANGED Lifecycle!lifecycleVars
    BY <2>1, RelistLeaves, LifecycleUnchanged DEF LedgerInv, ChaincodeInv
  <2> QED
    BY <1>1, <2>2, <2>3 DEF LedgerInv
<1> QED
  BY <1>2, <1>3

\* The empty ledger is in order.
LEMMA LedgerInvInit == ChaincodeInit => LedgerInv
BY ChaincodeInvInit, HistoryInvInit DEF ChaincodeInit, LedgerInv

\* Every transaction, whoever submits it, keeps it in order.
LEMMA LedgerInvNext == LedgerInv /\ [LedgerStep]_chaincodeVars => LedgerInv'
<1>1. LedgerInv /\ UNCHANGED chaincodeVars => LedgerInv'
  BY LedgerUnchangedKeeps, HistoryInvUnchanged DEF LedgerInv, chaincodeVars
<1> QED
  BY <1>1, LedgerStepHistory

\* So it is at all times.
LEMMA LedgerInvariance == LedgerSpec => []LedgerInv
BY LedgerInvInit, LedgerInvNext, PTL DEF LedgerSpec

\* Whoever submits, no assurance is issued and no substantive amendment
\* concluded without a review of its own, and versions count the instruments
\* (performTransition on whatever documents and claims it is passed).
THEOREM LedgerHistoryCorrect ==
  LedgerSpec => [](VersionCountsInstruments /\ EveryInstrumentReviewed)
<1>1. LedgerInv => VersionCountsInstruments /\ EveryInstrumentReviewed
  BY HistoryShown DEF LedgerInv
<1> QED
  BY <1>1, LedgerInvariance, PTL

\* Whoever submits, an observer of the ledger sees the lifecycle: documents do
\* not show in it.
THEOREM LedgerImplementsLifecycle == LedgerSpec => LifecycleSpec
<1>1. ChaincodeInit => Lifecycle!Init
  BY InitOfLifecycle DEF ChaincodeInit
<1>2. LedgerInv /\ [LedgerStep]_chaincodeVars
        => [Lifecycle!Next]_(Lifecycle!lifecycleVars)
  <2>1. UNCHANGED chaincodeVars => UNCHANGED Lifecycle!lifecycleVars
    BY DEF chaincodeVars, vars, Lifecycle!lifecycleVars
  <2> QED
    BY <2>1, LedgerStepHistory
<1> QED
  BY <1>1, <1>2, LedgerInvariance, PTL
  DEF LedgerSpec, LifecycleSpec, Lifecycle!Spec

\* Whoever submits, no event and no reference is ever overwritten, and a
\* rejected amendment restores what it interrupted.
THEOREM LedgerNeverRewrites ==
  LedgerSpec => TrailAppendOnly /\ AmendmentRejectionRestores
                  /\ ReferencesImmutable
<1>1. LedgerInv /\ [LedgerStep]_chaincodeVars => [events \subseteq events']_vars
  BY LedgerStepHistory DEF chaincodeVars
<1>2. LedgerInv /\ [LedgerStep]_chaincodeVars
        => [\A caseId \in CaseIds : Restored(caseId)]_vars
  BY LedgerStepHistory DEF chaincodeVars
<1>3. LedgerInv /\ [LedgerStep]_chaincodeVars => [ReferencesKept]_chaincodeVars
  BY LedgerStepHistory
<1> QED
  BY <1>1, <1>2, <1>3, LedgerInvariance, PTL
  DEF LedgerSpec, TrailAppendOnly, AmendmentRejectionRestores, Restored,
      ReferencesImmutable, ReferencesKept

\* The callers of the chaincode's own specification are such clients.
THEOREM ChaincodeIsLedger == ChaincodeSpec => LedgerSpec
<1>1. ChaincodeInv /\ [ChaincodeNext]_chaincodeVars => [LedgerStep]_chaincodeVars
  BY NextLedgerSteps
<1> QED
  BY <1>1, ChaincodeInvariance, PTL DEF ChaincodeSpec, LedgerSpec

-----------------------------------------------------------------------------
(* The view instantiates CaseContract without document identifiers; its     *)
(* vocabulary and rules are those of the chaincode.                         *)

\* The rules of the view are the rules of the chaincode.
LEMMA ViewRules ==
  /\ CaseView!SubmitCaseRule = SubmitCaseRule
  /\ CaseView!RecordDomesticReviewRule = RecordDomesticReviewRule
  /\ CaseView!RequestMoreInformationRule = RequestMoreInformationRule
  /\ CaseView!RespondToInformationRequestRule = RespondToInformationRequestRule
  /\ CaseView!ForwardToCoordinationRule = ForwardToCoordinationRule
  /\ CaseView!ForwardToForeignAuthorityRule = ForwardToForeignAuthorityRule
  /\ CaseView!RecordForeignReviewRule = RecordForeignReviewRule
  /\ CaseView!ApproveCaseRule = ApproveCaseRule
  /\ CaseView!RejectCaseRule = RejectCaseRule
  /\ CaseView!InitiateNonSubstantiveAmendmentRule
       = InitiateNonSubstantiveAmendmentRule
  /\ CaseView!InitiateSubstantiveAmendmentRule = InitiateSubstantiveAmendmentRule
  /\ CaseView!IssueAssuranceRule = IssueAssuranceRule
  /\ CaseView!AmendAssuranceRule = AmendAssuranceRule
  /\ CaseView!RejectAmendmentRule = RejectAmendmentRule
  /\ CaseView!RevokeAssuranceRule = RevokeAssuranceRule
  /\ CaseView!CloseCaseRule = CloseCaseRule
BY DEF Rule, CaseView!Rule,
   ApplicantRoles, CaseView!ApplicantRoles, ApplicantOrgs, CaseView!ApplicantOrgs,
   ReviewLanes, CaseView!ReviewLanes, ReviewerRoles, CaseView!ReviewerRoles,
   ReviewerOrgs, CaseView!ReviewerOrgs, NationalRoles, CaseView!NationalRoles,
   NationalOrgs, CaseView!NationalOrgs, InForceStates, CaseView!InForceStates,
   SubmitCaseRule, CaseView!SubmitCaseRule,
   RecordDomesticReviewRule, CaseView!RecordDomesticReviewRule,
   RequestMoreInformationRule, CaseView!RequestMoreInformationRule,
   RespondToInformationRequestRule, CaseView!RespondToInformationRequestRule,
   ForwardToCoordinationRule, CaseView!ForwardToCoordinationRule,
   ForwardToForeignAuthorityRule, CaseView!ForwardToForeignAuthorityRule,
   RecordForeignReviewRule, CaseView!RecordForeignReviewRule,
   ApproveCaseRule, CaseView!ApproveCaseRule,
   RejectCaseRule, CaseView!RejectCaseRule,
   InitiateNonSubstantiveAmendmentRule, CaseView!InitiateNonSubstantiveAmendmentRule,
   InitiateSubstantiveAmendmentRule, CaseView!InitiateSubstantiveAmendmentRule,
   IssueAssuranceRule, CaseView!IssueAssuranceRule,
   AmendAssuranceRule, CaseView!AmendAssuranceRule,
   RejectAmendmentRule, CaseView!RejectAmendmentRule,
   RevokeAssuranceRule, CaseView!RevokeAssuranceRule,
   CloseCaseRule, CaseView!CloseCaseRule

\* A rule is allowed of a record exactly if it is of the record's view.
LEMMA ViewEvaluates ==
  ASSUME NEW c \in AssuranceCase, NEW rule, NEW actor, NEW types,
         NEW justified,
         evaluateTransition(c, rule, actor, types, justified)
  PROVE  CaseView!evaluateTransition([c EXCEPT !.activeDocumentIds = {}],
                                     rule, actor, types, justified)
<1> DEFINE v == [c EXCEPT !.activeDocumentIds = {}]
<1>1. /\ v.currentState = c.currentState
      /\ v.currentSubstate = c.currentSubstate
      /\ v.domesticRegulatorStatus = c.domesticRegulatorStatus
      /\ v.issuanceStatus = c.issuanceStatus
      /\ v.currentAssuranceVersion = c.currentAssuranceVersion
      /\ v.pendingAmendmentReviewMode = c.pendingAmendmentReviewMode
      /\ v.amendmentBaseState = c.amendmentBaseState
  BY DEF AssuranceCase
<1> HIDE DEF v
<1>2. CaseView!ActorAllowed(rule, actor)
  BY DEF evaluateTransition, ActorAllowed, CaseView!ActorAllowed,
     ActorInGoodStanding, CaseView!ActorInGoodStanding, OrganizationOf,
     CaseView!OrganizationOf, AllowedActions, CaseView!AllowedActions
<1>3. CaseView!RecordAllows(v, rule.action)
  BY <1>1 DEF evaluateTransition, RecordAllows, CaseView!RecordAllows,
     AmendmentInitiations, CaseView!AmendmentInitiations, Undefined,
     CaseView!Undefined
<1>4. CaseView!evaluateTransition(v, rule, actor, types, justified)
  BY <1>1, <1>2, <1>3 DEF evaluateTransition, CaseView!evaluateTransition,
     JustifiedActions, CaseView!JustifiedActions
<1> QED
  BY <1>4 DEF v

\* Applying a rule and looking at the view commute.
LEMMA ViewApplies ==
  ASSUME NEW c \in AssuranceCase, NEW rule, NEW actor, NEW ids,
         NEW d \in AssuranceCase, d = applyTransition(c, rule, actor, ids)
  PROVE  CaseView!applyTransition([c EXCEPT !.activeDocumentIds = {}],
                                  rule, actor, {})
           = [d EXCEPT !.activeDocumentIds = {}]
<1> DEFINE v == [c EXCEPT !.activeDocumentIds = {}]
<1>1. /\ v.currentState = c.currentState
      /\ v.currentSubstate = c.currentSubstate
      /\ v.domesticRegulatorStatus = c.domesticRegulatorStatus
      /\ v.coordinationStatus = c.coordinationStatus
      /\ v.foreignRegulatorStatus = c.foreignRegulatorStatus
      /\ v.issuanceStatus = c.issuanceStatus
      /\ v.currentAssuranceVersion = c.currentAssuranceVersion
      /\ v.pendingAmendmentReviewMode = c.pendingAmendmentReviewMode
      /\ v.amendmentBaseState = c.amendmentBaseState
      /\ v.amendmentFlag = c.amendmentFlag
      /\ v.revocationFlag = c.revocationFlag
      /\ v.activeDocumentIds = {}
      /\ v.auditSequenceNumber = c.auditSequenceNumber
  BY DEF AssuranceCase
<1> HIDE DEF v
<1>2. CaseView!nextState(v, rule) = nextState(c, rule)
  BY <1>1 DEF nextState, CaseView!nextState
<1>3. CaseView!nextSubstate(v, rule.action) = nextSubstate(c, rule.action)
  BY <1>1 DEF nextSubstate, CaseView!nextSubstate, Undefined, CaseView!Undefined
<1>4. CaseView!nextDomesticStatus(v, rule.action, actor.organizationType)
        = nextDomesticStatus(c, rule.action, actor.organizationType)
  BY <1>1 DEF nextDomesticStatus, CaseView!nextDomesticStatus
<1>5. CaseView!nextCoordinationStatus(v, rule.action, actor.organizationType)
        = nextCoordinationStatus(c, rule.action, actor.organizationType)
  BY <1>1 DEF nextCoordinationStatus, CaseView!nextCoordinationStatus
<1>6. CaseView!nextForeignStatus(v, rule.action, actor.organizationType)
        = nextForeignStatus(c, rule.action, actor.organizationType)
  BY <1>1 DEF nextForeignStatus, CaseView!nextForeignStatus
<1>7. /\ CaseView!nextIssuanceStatus(v, rule.action)
           = nextIssuanceStatus(c, rule.action)
      /\ CaseView!nextVersion(v, rule.action) = nextVersion(c, rule.action)
  BY <1>1 DEF nextIssuanceStatus, CaseView!nextIssuanceStatus, nextVersion,
     CaseView!nextVersion
<1>8. /\ CaseView!nextReviewMode(v, rule.action) = nextReviewMode(c, rule.action)
      /\ CaseView!nextBaseState(v, rule.action) = nextBaseState(c, rule.action)
  BY <1>1 DEF nextReviewMode, CaseView!nextReviewMode, nextBaseState,
     CaseView!nextBaseState, ClosesAmendment, CaseView!ClosesAmendment,
     AmendmentInitiations, CaseView!AmendmentInitiations, Undefined,
     CaseView!Undefined
<1>9. CaseView!nextActiveDocuments(v, {}) = {}
  BY <1>1 DEF CaseView!nextActiveDocuments
<1>10. CaseView!AmendmentInitiations = AmendmentInitiations
  BY DEF AmendmentInitiations, CaseView!AmendmentInitiations
<1> DEFINE amended == \/ c.amendmentFlag
                      \/ rule.action \in AmendmentInitiations \cup {"amend_assurance"}
           revoked == c.revocationFlag \/ rule.action = "revoke_assurance"
           org == actor.organizationType
           Result(documentIds) ==
             [currentState |-> nextState(c, rule),
              currentSubstate |-> nextSubstate(c, rule.action),
              domesticRegulatorStatus |-> nextDomesticStatus(c, rule.action, org),
              coordinationStatus |-> nextCoordinationStatus(c, rule.action, org),
              foreignRegulatorStatus |-> nextForeignStatus(c, rule.action, org),
              issuanceStatus |-> nextIssuanceStatus(c, rule.action),
              currentAssuranceVersion |-> nextVersion(c, rule.action),
              pendingAmendmentReviewMode |-> nextReviewMode(c, rule.action),
              amendmentBaseState |-> nextBaseState(c, rule.action),
              amendmentFlag |-> amended,
              revocationFlag |-> revoked,
              activeDocumentIds |-> documentIds,
              auditSequenceNumber |-> c.auditSequenceNumber + 1]
<1>11. d = Result(nextActiveDocuments(c, ids))
  BY Zenon DEF applyTransition
<1>12. CaseView!applyTransition(v, rule, actor, {}) = Result({})
  BY <1>1, <1>2, <1>3, <1>4, <1>5, <1>6, <1>7, <1>8, <1>9, <1>10, Zenon
  DEF CaseView!applyTransition
<1>13. [d EXCEPT !.activeDocumentIds = {}] = Result({})
  <2> HIDE DEF amended, revoked
  <2> QED
    BY <1>11 DEF AssuranceCase
<1> QED
  BY <1>12, <1>13, Zenon DEF v

-----------------------------------------------------------------------------
(* Steps of the view.                                                      *)

\* The view of a record is a record, or absent like the record itself.
LEMMA ViewOfRecord ==
  /\ WithoutDocuments(NoCase) = NoCase
  /\ \A c \in AssuranceCase :
       /\ WithoutDocuments(c) = [c EXCEPT !.activeDocumentIds = {}]
       /\ WithoutDocuments(c) \in AssuranceCase
       /\ WithoutDocuments(c) # NoCase
       /\ WithoutDocuments(c).currentState = c.currentState
       /\ WithoutDocuments(c).auditSequenceNumber = c.auditSequenceNumber
<1>1. WithoutDocuments(NoCase) = NoCase
  BY DEF WithoutDocuments
<1>2. ASSUME NEW c \in AssuranceCase
      PROVE  /\ WithoutDocuments(c) = [c EXCEPT !.activeDocumentIds = {}]
             /\ WithoutDocuments(c) \in AssuranceCase
             /\ WithoutDocuments(c) # NoCase
             /\ WithoutDocuments(c).currentState = c.currentState
             /\ WithoutDocuments(c).auditSequenceNumber = c.auditSequenceNumber
  <2>1. c # NoCase
    BY CaseContractAssumption
  <2>2. WithoutDocuments(c) = [c EXCEPT !.activeDocumentIds = {}]
    BY <2>1, Zenon DEF WithoutDocuments
  <2>3. /\ [c EXCEPT !.activeDocumentIds = {}] \in AssuranceCase
        /\ [c EXCEPT !.activeDocumentIds = {}].currentState = c.currentState
        /\ [c EXCEPT !.activeDocumentIds = {}].auditSequenceNumber
             = c.auditSequenceNumber
    BY DEF AssuranceCase
  <2> QED
    BY <2>2, <2>3, CaseContractAssumption
<1> QED
  BY <1>1, <1>2

\* A record is put in the view as it is put in the world state.
LEMMA ViewPuts ==
  ASSUME cases \in [CaseIds -> AssuranceCase \cup {NoCase}],
         NEW caseId \in CaseIds, NEW d \in AssuranceCase, putCase(caseId, d)
  PROVE  CaseView!putCase(caseId, WithoutDocuments(d))
<1> DEFINE view == [c \in CaseIds |-> WithoutDocuments(cases[c])]
<1>1. cases' = [cases EXCEPT ![caseId] = d]
  BY DEF putCase
<1>2. [c \in CaseIds |-> WithoutDocuments(cases'[c])]
        = [view EXCEPT ![caseId] = WithoutDocuments(d)]
  BY <1>1
<1>3. /\ view[caseId] = NoCase <=> cases[caseId] = NoCase
      /\ cases[caseId] # NoCase =>
           view[caseId].currentState = cases[caseId].currentState
      /\ WithoutDocuments(d).currentState = d.currentState
  BY ViewOfRecord
<1> HIDE DEF view
<1>4. stateIndex' = CaseView!indexAfterPut(caseId, view[caseId],
                                           WithoutDocuments(d))
  BY <1>3 DEF putCase, indexAfterPut, CaseView!indexAfterPut
<1> QED
  BY <1>2, <1>4 DEF CaseView!putCase, view

\* A transition of a case is that transition of its view, without documents.
LEMMA ViewPerforms ==
  ASSUME IInv, NEW caseId \in CaseIds, NEW rule \in TRANSITIONS,
         NEW actor \in Actors, NEW types, NEW ids \in SUBSET DocumentIds,
         NEW justified \in BOOLEAN,
         performTransition(caseId, rule, actor, types, ids, justified)
  PROVE  CaseView!performTransition(caseId, rule, actor, types, {}, justified)
<1> DEFINE c == cases[caseId]
           d == applyTransition(c, rule, actor, ids)
           view == [k \in CaseIds |-> WithoutDocuments(cases[k])]
<1>1. cases \in [CaseIds -> AssuranceCase \cup {NoCase}]
  BY DEF IInv, TypeOK
<1>2. c \in AssuranceCase /\ d \in AssuranceCase
  BY TransitionPreserves, CaseContractAssumption
  DEF performTransition, IInv, RecordInv
<1>3. view[caseId] = WithoutDocuments(c)
  OBVIOUS
<1>4. /\ CaseView!Exists(caseId)
      /\ view[caseId].auditSequenceNumber < MaxAuditSequence
      /\ view[caseId].currentState = c.currentState
  BY <1>2, <1>3, ViewOfRecord DEF performTransition, CaseView!Exists
<1>5. CaseView!evaluateTransition(view[caseId], rule, actor, types, justified)
  BY <1>2, <1>3, ViewOfRecord, ViewEvaluates DEF performTransition
<1>6. CaseView!applyTransition(view[caseId], rule, actor, {})
        = WithoutDocuments(d)
  BY <1>2, <1>3, ViewOfRecord, ViewApplies
<1>7. CaseView!putCase(caseId, WithoutDocuments(d))
  BY <1>1, <1>2, ViewPuts DEF performTransition
<1>8. CaseView!appendEvent(
        [caseId |-> caseId,
         sequence |-> WithoutDocuments(d).auditSequenceNumber,
         actionType |-> rule.action,
         previousState |-> view[caseId].currentState,
         newState |-> WithoutDocuments(d).currentState])
  <2>1. /\ WithoutDocuments(d).auditSequenceNumber = d.auditSequenceNumber
        /\ WithoutDocuments(d).currentState = d.currentState
    BY <1>2, ViewOfRecord
  <2> HIDE DEF d, view
  <2> QED
    BY <1>4, <2>1 DEF performTransition, appendEvent, CaseView!appendEvent,
       SameEventKey, CaseView!SameEventKey, d
<1> HIDE DEF c, d
<1> QED
  BY <1>4, <1>5, <1>6, <1>7, <1>8 DEF CaseView!performTransition

\* The creation of a case is its creation in the view.
LEMMA ViewCreates ==
  ASSUME IInv, NEW caseId \in CaseIds, NEW actor, createCase(caseId, actor)
  PROVE  CaseView!createCase(caseId, actor)
<1>1. cases \in [CaseIds -> AssuranceCase \cup {NoCase}]
  BY DEF IInv, TypeOK
<1>2. CaseView!assertCreateCaseAllowed(actor)
  BY DEF createCase, assertCreateCaseAllowed, CaseView!assertCreateCaseAllowed,
     ActorInGoodStanding, CaseView!ActorInGoodStanding, OrganizationOf,
     CaseView!OrganizationOf, AllowedActions, CaseView!AllowedActions
<1>3. ~CaseView!Exists(caseId)
  BY DEF createCase, Exists, CaseView!Exists, WithoutDocuments
<1>4. CaseView!putCase(caseId, CaseView!DraftCase)
  <2>1. DraftCase \in AssuranceCase
    BY DraftPreserves DEF RecordInv
  <2>2. WithoutDocuments(DraftCase) = CaseView!DraftCase
    <3>1. WithoutDocuments(DraftCase) = [DraftCase EXCEPT !.activeDocumentIds = {}]
      BY <2>1, ViewOfRecord
    <3> QED
      BY <3>1 DEF DraftCase, CaseView!DraftCase, Undefined, CaseView!Undefined
  <2> QED
    BY <1>1, <2>1, <2>2, ViewPuts DEF createCase
<1>5. CaseView!appendEvent([caseId |-> caseId, sequence |-> 1,
                            actionType |-> "create_case",
                            previousState |-> CaseView!Undefined,
                            newState |-> "draft"])
  BY DEF createCase, appendEvent, CaseView!appendEvent, SameEventKey,
     CaseView!SameEventKey, Undefined, CaseView!Undefined
<1> QED
  BY <1>2, <1>3, <1>4, <1>5 DEF createCase, CaseView!createCase

\* A transaction of CaseContract is a transaction of the view.
LEMMA ViewTransacts == ASSUME IInv, Next PROVE CaseView!Next
<1>1. PICK caseId \in CaseIds, actor \in Actors :
        \/ createCase(caseId, actor)
        \/ \E justified \in BOOLEAN :
             \/ PlainTransaction(caseId, actor, justified)
             \/ \E types \in DocumentTypeClaims, ids \in SUBSET DocumentIds :
                  DocumentedTransaction(caseId, actor, types, ids, justified)
  BY DEF Next
<1>2. CASE createCase(caseId, actor)
  BY <1>2, ViewCreates DEF CaseView!Next
<1>3. ASSUME NEW justified \in BOOLEAN,
             PlainTransaction(caseId, actor, justified)
      PROVE  CaseView!PlainTransaction(caseId, actor, justified)
  <2>1. \A rule \in TRANSITIONS :
          performTransition(caseId, rule, actor, {}, {}, justified) =>
            CaseView!performTransition(caseId, rule, actor, {}, {}, justified)
    BY ViewPerforms
  <2> QED
    BY <1>3, <2>1, ViewRules DEF TRANSITIONS,
      PlainTransaction, CaseView!PlainTransaction,
      recordDomesticReview, CaseView!recordDomesticReview,
      forwardToCoordination, CaseView!forwardToCoordination,
      recordForeignReview, CaseView!recordForeignReview,
      rejectAmendment, CaseView!rejectAmendment, closeCase,
      CaseView!closeCase
<1>4. ASSUME NEW justified \in BOOLEAN, NEW types \in DocumentTypeClaims,
             NEW ids \in SUBSET DocumentIds,
             DocumentedTransaction(caseId, actor, types, ids, justified)
      PROVE  CaseView!DocumentedTransaction(caseId, actor, types, {}, justified)
  <2>1. \A rule \in TRANSITIONS :
          performTransition(caseId, rule, actor, types, ids, justified) =>
            CaseView!performTransition(caseId, rule, actor, types, {}, justified)
    BY ViewPerforms
  <2> QED
    BY <1>4, <2>1, ViewRules DEF TRANSITIONS,
      DocumentedTransaction, CaseView!DocumentedTransaction,
      submitCase, CaseView!submitCase, requestMoreInformation,
      CaseView!requestMoreInformation, respondToInformationRequest,
      CaseView!respondToInformationRequest, forwardToForeignAuthority,
      CaseView!forwardToForeignAuthority, approveCase,
      CaseView!approveCase, rejectCase, CaseView!rejectCase,
      issueAssurance, CaseView!issueAssurance,
      initiateNonSubstantiveAmendment,
      CaseView!initiateNonSubstantiveAmendment,
      initiateSubstantiveAmendment,
      CaseView!initiateSubstantiveAmendment, amendAssurance,
      CaseView!amendAssurance, revokeAssurance, CaseView!revokeAssurance
<1>5. {} \in SUBSET {}
  OBVIOUS
<1> QED
  BY <1>1, <1>2, <1>3, <1>4, <1>5 DEF CaseView!Next

\* A transaction of the document contract leaves the view as it is.
LEMMA ViewIgnoresDocuments ==
  ASSUME ChaincodeInv, Documents!Next, UNCHANGED <<stateIndex, events>>
  PROVE  UNCHANGED CaseView!vars
<1>1. PICK caseId \in CaseIds, ids \in SUBSET DocumentIds : Relists(caseId, ids)
  <2>1. ASSUME NEW documentId \in DocumentIds,
               NEW superseded \in DocumentIds \cup {Undefined},
               NEW reference \in Documents!DocumentReference,
               Anchors(documentId, reference, superseded)
        PROVE  \E caseId \in CaseIds, ids \in SUBSET DocumentIds :
                 Relists(caseId, ids)
    <3> DEFINE home == reference.caseId
               list == (cases[home].activeDocumentIds \ {superseded})
                         \cup {documentId}
    <3>1. home \in CaseIds /\ Relists(home, list)
      BY <2>1 DEF Anchors, Documents!DocumentReference
    <3>2. list \in SUBSET DocumentIds
      BY <3>1 DEF Relists, ChaincodeInv, IInv, RecordInv, AssuranceCase
    <3> HIDE DEF home, list
    <3> QED
      BY <3>1, <3>2
  <2>2. ASSUME NEW documentId \in DocumentIds, NEW caseId \in CaseIds,
               Deactivates(documentId, caseId)
        PROVE  \E ids \in SUBSET DocumentIds : Relists(caseId, ids)
    <3> DEFINE list == cases[caseId].activeDocumentIds \ {documentId}
    <3>1. Relists(caseId, list)
      BY <2>2 DEF Deactivates
    <3>2. list \in SUBSET DocumentIds
      BY <3>1 DEF Relists, ChaincodeInv, IInv, RecordInv, AssuranceCase
    <3> HIDE DEF list
    <3> QED
      BY <3>1, <3>2
  <2> QED
    BY <2>1, <2>2, DocumentSteps
<1>2. cases \in [CaseIds -> AssuranceCase \cup {NoCase}]
  BY DEF ChaincodeInv, IInv, TypeOK
<1>3. cases[caseId] \in AssuranceCase
  BY <1>1 DEF Relists, ChaincodeInv, IInv, RecordInv
<1>4. PICK d : /\ d \in AssuranceCase
               /\ cases' = [cases EXCEPT ![caseId] = d]
               /\ WithoutDocuments(d) = WithoutDocuments(cases[caseId])
  <2> DEFINE d == [cases[caseId] EXCEPT !.activeDocumentIds = ids]
  <2>1. d \in AssuranceCase
    BY <1>3 DEF AssuranceCase
  <2>2. cases' = [cases EXCEPT ![caseId] = d]
    BY <1>1, <1>2 DEF Relists
  <2>3. [d EXCEPT !.activeDocumentIds = {}]
          = [cases[caseId] EXCEPT !.activeDocumentIds = {}]
    BY <1>3 DEF AssuranceCase
  <2> HIDE DEF d
  <2>4. WithoutDocuments(d) = WithoutDocuments(cases[caseId])
    BY <1>3, <2>1, <2>3, ViewOfRecord
  <2> QED
    BY <2>1, <2>2, <2>4
<1>5. [c \in CaseIds |-> WithoutDocuments(cases'[c])]
        = [c \in CaseIds |-> WithoutDocuments(cases[c])]
  BY <1>2, <1>4
<1> QED
  BY <1>1, <1>5 DEF Relists, CaseView!vars

\* Anchoring, versioning and deactivating documents never disturb a case's
\* workflow, index or trail (DocumentContract.putCaseRecord rewrites the whole
\* record): the deployed chaincode implements CaseContract.
THEOREM ImplementsCaseContract == ChaincodeSpec => WorkflowUndisturbed
<1>1. ChaincodeInit => CaseView!Init
  BY ViewOfRecord DEF ChaincodeInit, Init, CaseView!Init
<1>2. ChaincodeInv /\ [ChaincodeNext]_chaincodeVars
        => [CaseView!Next]_(CaseView!vars)
  <2> SUFFICES ASSUME ChaincodeInv, [ChaincodeNext]_chaincodeVars
               PROVE  CaseView!Next \/ UNCHANGED CaseView!vars
    OBVIOUS
  <2>1. CASE Next
    BY <2>1, ViewTransacts DEF ChaincodeInv
  <2>2. CASE Documents!Next /\ UNCHANGED <<stateIndex, events>>
    BY <2>2, ViewIgnoresDocuments
  <2>3. CASE UNCHANGED chaincodeVars
    BY <2>3 DEF chaincodeVars, vars, CaseView!vars
  <2> QED
    BY <2>1, <2>2, <2>3 DEF ChaincodeNext
<1> QED
  BY <1>1, <1>2, ChaincodeInvariance, PTL
  DEF ChaincodeSpec, WorkflowUndisturbed, CaseView!Spec

=============================================================================
