-------------------------- MODULE SimulatorProofs --------------------------
(***************************************************************************)
(* The simulator in front of the chaincode, proved for every number of     *)
(* messages at a time, every bound on the trail and the log, and every     *)
(* manifest.  Nothing in the simulator remembers a message, so what keeps  *)
(* a repeated one from being applied again is in the trail: each authority *)
(* speaks once for each time the workflow has brought the case to it.      *)
(***************************************************************************)
EXTENDS Simulator, ChaincodeProofs

Bit(condition) == IF condition THEN 1 ELSE 0

\* How often each action is in a case's trail.
TrailCount(caseId) == [action \in WorkflowActions |-> Count(caseId, action)]

\* What the counts n of a case's actions say of its record c: a case that is
\* not a draft was submitted, it was forwarded once for each review and once
\* more while it waits for one, and so on.
RoundsCounted(n, c) ==
  /\ n["submit_case"] = 0 => c.currentState = "draft"
  /\ n["forward_to_foreign_authority"]
       = n["record_foreign_review"]
           + Bit(c.currentState = "forwarded_to_foreign_authority")
  /\ n["approve_case"] + Bit(EffectiveLane(c) = "under_foreign_review")
       <= n["record_foreign_review"]
  /\ n["request_more_information"]
       = n["respond_to_information_request"]
           + Bit(c.currentState = "more_information_requested")
  /\ n["reject_case"]
       + Bit(c.currentState \notin {"rejected", "closed_archived"}) <= 1

TrailsCounted ==
  \A caseId \in CaseIds :
    /\ IsFiniteSet(Trail(caseId))
    /\ Exists(caseId) => RoundsCounted(TrailCount(caseId), cases[caseId])

-----------------------------------------------------------------------------
(* The exchanges. *)

Intake ==
  [kind : {"domestic_intake"},
   step : {"createDraft", "uploadManifest", "record"},
   caseId : CaseIds, autoSubmit : BOOLEAN, manifest : Manifests,
   pending : SUBSET Nat, uploaded : SUBSET DocumentIds]

\* Acknowledgements, and decisions whose document has been uploaded.
Message ==
  [kind : DOMAIN RuleOf, step : {"transitionCase", "record"},
   caseId : CaseIds, evidence : SUBSET DocumentIds]

\* Decisions whose document is still to be uploaded.
Announced ==
  [kind : DOMAIN DecisionDocument, step : {"uploadDecision"},
   caseId : CaseIds, evidence : SUBSET DocumentIds]

ExchangeRecord == {Idle} \cup Intake \cup Message \cup Announced

ExchangesTyped ==
  /\ exchanges \in [Exchanges -> ExchangeRecord]
  /\ exchangeLog \in [CaseIds -> [ExchangeKinds -> Nat]]
  /\ disturbed \in BOOLEAN

\* What an intake that is being uploaded has done so far, and that what is
\* still to be uploaded completes it.
IntakeComplete(exchange) ==
  exchange.step \in {"createDraft", "uploadManifest"} =>
    /\ exchange.step = "uploadManifest" => Exists(exchange.caseId)
    /\ \A d \in exchange.uploaded : documents[d] # NoDocument
    /\ exchange.autoSubmit =>
         REQUIRED_INTAKE_DOCUMENTS
           \subseteq {exchange.manifest[i].documentType : i \in exchange.pending}
                       \cup {documents[d].documentType : d \in exchange.uploaded}

IntakesComplete == \A x \in Exchanges : IntakeComplete(exchanges[x])

\* The exchanges of a kind that were applied to a case, in the log or on
\* their way to it.
Applied(caseId, kind) == exchangeLog[caseId][kind] + Unrecorded(caseId, kind)

Caused(caseId, kind) == Count(caseId, RuleOf[kind].action)

\* The kinds that nobody but the simulator can cause.
ForeignKinds == {"foreign_acknowledgement", "approved"}

LogCovered ==
  \A caseId \in CaseIds :
    /\ \A kind \in DOMAIN RuleOf : Applied(caseId, kind) <= Caused(caseId, kind)
    /\ ~disturbed =>
         \A kind \in ForeignKinds : Applied(caseId, kind) = Caused(caseId, kind)

SimulatorInv ==
  /\ ChaincodeInv
  /\ TrailsCounted
  /\ ExchangesTyped
  /\ IntakesComplete
  /\ LogCovered

-----------------------------------------------------------------------------
(* The actors. *)

\* The officers the simulator speaks for are users.
LEMMA SimulatorActors ==
  /\ ApplicantActor \in UserClaims
  /\ FOREIGN_ACTOR \in UserClaims
  /\ \A role \in DomesticRoles : OfficerOf(role) \in UserClaims
BY DEF ApplicantActor, FOREIGN_ACTOR, DomesticRoles, OfficerOf, UserClaims,
       UserRoles, OrganizationOf, OrganizationTypes

-----------------------------------------------------------------------------
(* The counts of a trail. *)

\* The counts after one more event.
Counted(n, action) ==
  [a \in WorkflowActions |-> n[a] + Bit(a = action)]

\* A transition counts for itself and for nothing else: no rule lets an
\* authority speak twice in a round (TRANSITIONS, applyTransition).
LEMMA RoundsAdvance ==
  ASSUME NEW c, RecordInv(c), NEW actor, NEW types, NEW ids, NEW justified,
         NEW rule \in TRANSITIONS,
         evaluateTransition(c, rule, actor, types, justified),
         NEW n \in [WorkflowActions -> Nat], RoundsCounted(n, c)
  PROVE  RoundsCounted(Counted(n, rule.action),
                       applyTransition(c, rule, actor, ids))
<1> SUFFICES ASSUME NEW m, m = Counted(n, rule.action)
             PROVE  RoundsCounted(m, applyTransition(c, rule, actor, ids))
  OBVIOUS
<1>0. /\ n["submit_case"] \in Nat
      /\ m["submit_case"] = n["submit_case"] + Bit("submit_case" = rule.action)
      /\ n["forward_to_foreign_authority"] \in Nat
      /\ m["forward_to_foreign_authority"] = n["forward_to_foreign_authority"] + Bit("forward_to_foreign_authority" = rule.action)
      /\ n["record_foreign_review"] \in Nat
      /\ m["record_foreign_review"] = n["record_foreign_review"] + Bit("record_foreign_review" = rule.action)
      /\ n["approve_case"] \in Nat
      /\ m["approve_case"] = n["approve_case"] + Bit("approve_case" = rule.action)
      /\ n["request_more_information"] \in Nat
      /\ m["request_more_information"] = n["request_more_information"] + Bit("request_more_information" = rule.action)
      /\ n["respond_to_information_request"] \in Nat
      /\ m["respond_to_information_request"] = n["respond_to_information_request"] + Bit("respond_to_information_request" = rule.action)
      /\ n["reject_case"] \in Nat
      /\ m["reject_case"] = n["reject_case"] + Bit("reject_case" = rule.action)
  BY DEF Counted, WorkflowActions
<1> USE <1>0 DEF RecordInv, AssuranceCase, evaluateTransition, Rule,
            applyTransition, nextState, nextSubstate, RoundsCounted, Bit,
            BaselineKept, EffectiveLane, Resumable, InForceStates, ReviewLanes
<1>1. CASE rule = SubmitCaseRule
  BY <1>1 DEF SubmitCaseRule
<1>2. CASE rule = RecordDomesticReviewRule
  BY <1>2 DEF RecordDomesticReviewRule
<1>3. CASE rule = RequestMoreInformationRule
  BY <1>3 DEF RequestMoreInformationRule
<1>4. CASE rule = RespondToInformationRequestRule
  BY <1>4 DEF RespondToInformationRequestRule
<1>5. CASE rule = ForwardToCoordinationRule
  BY <1>5 DEF ForwardToCoordinationRule
<1>6. CASE rule = ForwardToForeignAuthorityRule
  BY <1>6 DEF ForwardToForeignAuthorityRule
<1>7. CASE rule = RecordForeignReviewRule
  BY <1>7 DEF RecordForeignReviewRule
<1>8. CASE rule = ApproveCaseRule
  BY <1>8 DEF ApproveCaseRule
<1>9. CASE rule = RejectCaseRule
  BY <1>9 DEF RejectCaseRule
<1>10. CASE rule = InitiateNonSubstantiveAmendmentRule
  BY <1>10 DEF InitiateNonSubstantiveAmendmentRule
<1>11. CASE rule = InitiateSubstantiveAmendmentRule
  BY <1>11 DEF InitiateSubstantiveAmendmentRule
<1>12. CASE rule = IssueAssuranceRule
  BY <1>12 DEF IssueAssuranceRule
<1>13. CASE rule = AmendAssuranceRule
  BY <1>13 DEF AmendAssuranceRule
<1>14. CASE rule = RejectAmendmentRule
  <2>1. PICK d : d = applyTransition(c, rule, actor, ids)
    OBVIOUS
  <2>2. /\ c.currentState \in ReviewLanes
        /\ d.currentState \in InForceStates
        /\ rule.action = "reject_amendment"
    BY <1>14, <2>1 DEF RejectAmendmentRule, RecordAllows
  <2>3. RoundsCounted(m, d)
    BY <1>0, <2>2 DEF RoundsCounted, Bit, EffectiveLane
  <2> QED
    BY <2>1, <2>3
<1>15. CASE rule = RevokeAssuranceRule
  BY <1>15 DEF RevokeAssuranceRule
<1>16. CASE rule = CloseCaseRule
  <2>1. PICK d : d = applyTransition(c, rule, actor, ids)
    OBVIOUS
  <2>2. /\ c.currentState \in {"issued", "amended", "rejected", "revoked"}
        /\ d.currentState = "closed_archived"
        /\ rule.action = "close_case"
    BY <1>16, <2>1 DEF CloseCaseRule
  <2>3. RoundsCounted(m, d)
    BY <1>0, <2>2 DEF RoundsCounted, Bit, EffectiveLane
  <2> QED
    BY <2>1, <2>3
<1> QED
  BY <1>1, <1>2, <1>3, <1>4, <1>5, <1>6, <1>7, <1>8, <1>9, <1>10, <1>11,
     <1>12, <1>13, <1>14, <1>15, <1>16 DEF TRANSITIONS

\* One more event is one more of its action.
LEMMA EventCounted ==
  ASSUME NEW caseId \in CaseIds, NEW e, IsFiniteSet(Trail(caseId)),
         Trail(caseId)' = Trail(caseId) \cup {e}, e \notin Trail(caseId)
  PROVE  /\ IsFiniteSet(Trail(caseId))'
         /\ TrailCount(caseId)' = Counted(TrailCount(caseId), e.actionType)
<1>1. IsFiniteSet(Trail(caseId))'
  BY FS_AddElement
<1>2. ASSUME NEW action
      PROVE  Count(caseId, action)' = Count(caseId, action) + Bit(action = e.actionType)
  <2> DEFINE T == {f \in Trail(caseId) : f.actionType = action}
             U == {f \in Trail(caseId)' : f.actionType = action}
  <2>1. IsFiniteSet(T) /\ Cardinality(T) \in Nat
    BY FS_Subset, FS_CardinalityType
  <2>2. Cardinality(U) = Cardinality(T) + Bit(action = e.actionType)
    <3>1. CASE action = e.actionType
      <4>1. U = T \cup {e} /\ e \notin T
        BY <3>1
      <4> HIDE DEF T, U
      <4> QED
        BY <2>1, <3>1, <4>1, FS_AddElement DEF Bit
    <3>2. CASE action # e.actionType
      <4>1. U = T
        BY <3>2
      <4> HIDE DEF T, U
      <4> QED
        BY <2>1, <3>2, <4>1 DEF Bit
    <3> QED
      BY <3>1, <3>2
  <2>3. Count(caseId, action) = Cardinality(T) /\ Count(caseId, action)' = Cardinality(U)
    BY DEF Count
  <2> QED
    BY <2>2, <2>3
<1>3. TrailCount(caseId)' = [a \in WorkflowActions |-> Count(caseId, a)']
  BY DEF TrailCount
<1> QED
  BY <1>1, <1>2, <1>3 DEF TrailCount, Counted

\* A finite trail is counted by numbers.
LEMMA CountsTyped ==
  ASSUME NEW caseId \in CaseIds, IsFiniteSet(Trail(caseId))
  PROVE  TrailCount(caseId) \in [WorkflowActions -> Nat]
<1>1. \A action : Count(caseId, action) \in Nat
  <2> SUFFICES ASSUME NEW action PROVE Count(caseId, action) \in Nat
    OBVIOUS
  <2>1. IsFiniteSet({e \in Trail(caseId) : e.actionType = action})
    BY FS_Subset
  <2> QED
    BY <2>1, FS_CardinalityType DEF Count
<1> QED
  BY <1>1 DEF TrailCount

-----------------------------------------------------------------------------
(* What the calls of an exchange do to the ledger. *)

LedgerKept ==
  /\ ChaincodeInv'
  /\ TrailsCounted'
  /\ ReferencesKept
  /\ \A caseId \in CaseIds : Exists(caseId) => Exists(caseId)'

\* One action is recorded, on one case.
CountsOne(caseId, action) ==
  /\ TrailCount(caseId)' = Counted(TrailCount(caseId), action)
  /\ \A other \in CaseIds \ {caseId} : TrailCount(other)' = TrailCount(other)

\* None is.
CountsNone == \A caseId \in CaseIds : TrailCount(caseId)' = TrailCount(caseId)

\* A write of either kind counts its event and no other.
LEMMA WriteCounted ==
  ASSUME ChaincodeInv, TrailsCounted, NEW caseId \in CaseIds, NEW d, NEW e,
         Writes(caseId, d, e),
         RoundsCounted(Counted(TrailCount(caseId), e.actionType), d)
  PROVE  TrailsCounted' /\ CountsOne(caseId, e.actionType)
<1>1. /\ events' = events \cup {e}
      /\ \A f \in events : f.caseId = caseId => f.sequence \in 1 .. Recorded(caseId)
      /\ Recorded(caseId) \in Nat
  BY EventIsNew DEF ChaincodeInv
<1>2. e.caseId = caseId /\ e.sequence = Recorded(caseId) + 1
  BY DEF Writes
<1>3. /\ Trail(caseId)' = Trail(caseId) \cup {e}
      /\ e \notin Trail(caseId)
      /\ \A other \in CaseIds \ {caseId} : Trail(other)' = Trail(other)
  BY <1>1, <1>2 DEF Trail
<1>4. /\ cases'[caseId] = d
      /\ \A other \in CaseIds \ {caseId} : cases'[other] = cases[other]
  BY DEF Writes, putCase, ChaincodeInv, IInv, TypeOK
<1>5. /\ IsFiniteSet(Trail(caseId))'
      /\ TrailCount(caseId)' = Counted(TrailCount(caseId), e.actionType)
  BY <1>3, EventCounted DEF TrailsCounted
<1>6. ASSUME NEW other \in CaseIds \ {caseId}
      PROVE  /\ IsFiniteSet(Trail(other))'
             /\ TrailCount(other)' = TrailCount(other)
             /\ (Exists(other) => RoundsCounted(TrailCount(other), cases[other]))'
  <2>1. Trail(other)' = Trail(other) /\ cases'[other] = cases[other]
    BY <1>3, <1>4
  <2>2. \A action : Count(other, action)' = Count(other, action)
    BY <2>1 DEF Count
  <2>3. TrailCount(other)' = TrailCount(other)
    BY <2>2 DEF TrailCount
  <2> QED
    BY <2>1, <2>3 DEF TrailsCounted, Exists, RoundsCounted
<1>7. RoundsCounted(TrailCount(caseId), cases[caseId])'
  BY <1>4, <1>5 DEF RoundsCounted
<1> QED
  BY <1>5, <1>6, <1>7 DEF TrailsCounted, CountsOne

\* A transaction of CaseContract keeps the ledger (transitionCase).
LEMMA CaseStepKept ==
  ASSUME ChaincodeInv, CaseStep, UNCHANGED <<documents, caseDocuments>>,
         TrailsCounted'
  PROVE  LedgerKept
<1>1. ChaincodeInv' /\ ReferencesKept
  BY LedgerStepKeeps DEF LedgerStep
<1>2. \A caseId \in CaseIds : Exists(caseId) => Exists(caseId)'
  BY CaseStepKeepsLists DEF ChaincodeInv
<1> QED
  BY <1>1, <1>2 DEF LedgerKept

\* A transition counts for its rule.
LEMMA TransitionCounted ==
  ASSUME ChaincodeInv, TrailsCounted, NEW caseId \in CaseIds,
         NEW rule \in TRANSITIONS, NEW actor \in UserClaims,
         NEW ids \in SUBSET DocumentIds, NEW types,
         transitionCase(caseId, rule, actor, ids, types)
  PROVE  LedgerKept /\ CountsOne(caseId, rule.action)
<1>1. performTransition(caseId, rule, actor, types, ids, TRUE)
  BY DEF transitionCase
<1>2. IInv
  BY DEF ChaincodeInv
<1> DEFINE d == applyTransition(cases[caseId], rule, actor, ids)
<1>3. PICK e \in WorkflowEvent :
        /\ Writes(caseId, d, e)
        /\ Exists(caseId)
        /\ e.actionType = rule.action
  BY <1>1, <1>2, TransitionWrites
<1>4. TrailCount(caseId) \in [WorkflowActions -> Nat]
  BY CountsTyped DEF TrailsCounted
<1>5. RoundsCounted(Counted(TrailCount(caseId), rule.action), d)
  <2>1. /\ RecordInv(cases[caseId])
        /\ evaluateTransition(cases[caseId], rule, actor, types, TRUE)
        /\ RoundsCounted(TrailCount(caseId), cases[caseId])
    BY <1>1, <1>2 DEF performTransition, IInv, TrailsCounted
  <2> QED
    BY <1>4, <2>1, RoundsAdvance
<1> HIDE DEF d
<1>6. TrailsCounted' /\ CountsOne(caseId, rule.action)
  BY <1>3, <1>5, WriteCounted
<1>7. CaseStep /\ UNCHANGED <<documents, caseDocuments>>
  BY <1>1 DEF CaseStep, transitionCase
<1> QED
  BY <1>6, <1>7, CaseStepKept

\* A creation counts for itself, and the case is there afterwards.
LEMMA CreationCounted ==
  ASSUME ChaincodeInv, TrailsCounted, NEW caseId \in CaseIds,
         NEW actor \in UserClaims, createCase(caseId, actor),
         UNCHANGED <<documents, caseDocuments>>
  PROVE  /\ LedgerKept
         /\ CountsOne(caseId, "create_case")
         /\ Exists(caseId)'
<1>1. PICK e \in WorkflowEvent : Writes(caseId, DraftCase, e) /\ ~Exists(caseId)
  BY CreationWrites
<1>2. e.actionType = "create_case"
  BY <1>1 DEF Writes
<1>3. Trail(caseId) = {}
  BY <1>1 DEF ChaincodeInv, IInv, TrailGapFree
<1>4. \A action : Count(caseId, action) = 0
  BY <1>3, FS_EmptySet DEF Count
<1>5. RoundsCounted(Counted(TrailCount(caseId), "create_case"), DraftCase)
  BY <1>4 DEF RoundsCounted, Counted, TrailCount, Bit, DraftCase, EffectiveLane,
              WorkflowActions
<1>6. TrailsCounted' /\ CountsOne(caseId, "create_case")
  BY <1>1, <1>2, <1>5, WriteCounted
<1>7. LedgerKept
  BY <1>6, CaseStepKept DEF CaseStep
<1>8. Exists(caseId)'
  <2>1. /\ cases' = [cases EXCEPT ![caseId] = DraftCase]
        /\ cases \in [CaseIds -> AssuranceCase \cup {NoCase}]
        /\ DraftCase \in AssuranceCase
    BY <1>1 DEF Writes, putCase, ChaincodeInv, IInv, TypeOK, RecordInv
  <2> QED
    BY <2>1, CaseContractAssumption DEF Exists
<1> QED
  BY <1>6, <1>7, <1>8

\* A step without an event, which leaves the cases where they are, counts
\* nothing.
LEMMA QuietCounted ==
  ASSUME TrailsCounted, UNCHANGED events,
         \A caseId \in CaseIds :
           /\ Exists(caseId)' <=> Exists(caseId)
           /\ Exists(caseId) =>
                /\ cases'[caseId].currentState = cases[caseId].currentState
                /\ cases'[caseId].currentSubstate = cases[caseId].currentSubstate
  PROVE  TrailsCounted' /\ CountsNone
<1> SUFFICES ASSUME NEW caseId \in CaseIds
             PROVE  /\ IsFiniteSet(Trail(caseId))'
                    /\ (Exists(caseId) =>
                           RoundsCounted(TrailCount(caseId), cases[caseId]))'
                    /\ TrailCount(caseId)' = TrailCount(caseId)
  BY DEF TrailsCounted, CountsNone
<1>1. Trail(caseId)' = Trail(caseId)
  BY DEF Trail
<1>2. \A action : Count(caseId, action)' = Count(caseId, action)
  BY <1>1 DEF Count
<1>3. TrailCount(caseId)' = TrailCount(caseId)
  BY <1>2 DEF TrailCount
<1>4. IsFiniteSet(Trail(caseId))'
  BY <1>1 DEF TrailsCounted
<1>5. ASSUME Exists(caseId)'
      PROVE  RoundsCounted(TrailCount(caseId), cases[caseId])'
  BY <1>3, <1>5 DEF TrailsCounted, RoundsCounted, EffectiveLane
<1> QED
  BY <1>3, <1>4, <1>5

\* So does a call that has no effect on the ledger.
LEMMA UnchangedCounted ==
  ASSUME ChaincodeInv, TrailsCounted, UNCHANGED chaincodeVars
  PROVE  LedgerKept /\ CountsNone
<1>1. UNCHANGED <<cases, events>>
  BY DEF chaincodeVars, vars
<1>2. \A caseId \in CaseIds : Exists(caseId)' <=> Exists(caseId)
  BY <1>1 DEF Exists
<1>3. TrailsCounted' /\ CountsNone
  BY <1>1, <1>2, QuietCounted
<1> QED
  BY <1>2, <1>3, LedgerUnchangedKeeps DEF LedgerKept

\* An upload anchors a first version of the type it was given (uploadDocument).
LEMMA UploadAnchors ==
  ASSUME ChaincodeInv, NEW documentId \in DocumentIds, NEW caseId \in CaseIds,
         NEW documentType, NEW actor,
         uploadDocument(documentId, caseId, documentType, actor)
  PROVE  \E reference \in Documents!DocumentReference :
           /\ Anchors(documentId, reference, Undefined)
           /\ reference.documentType = documentType
           /\ reference.caseId = caseId
<1>1. PICK sha256Hash \in Hashes :
        Documents!addDocumentReference(documentId,
          [caseId |-> caseId, documentType |-> documentType,
           sha256Hash |-> sha256Hash, version |-> 1,
           supersedesDocumentId |-> Undefined, isActive |-> TRUE], actor)
  BY DEF uploadDocument
<1>2. UNCHANGED <<stateIndex, events>>
  BY DEF uploadDocument
<1>3. PICK payload :
        payload = [caseId |-> caseId, documentType |-> documentType,
                   sha256Hash |-> sha256Hash, version |-> 1,
                   supersedesDocumentId |-> Undefined, isActive |-> TRUE]
  OBVIOUS
<1>4. payload \in Documents!DocumentReference
  BY <1>1, <1>3, SameVocabulary
  DEF Documents!addDocumentReference, Documents!assertKnownDocumentType,
      Documents!DocumentReference
<1>5. PICK reference :
        /\ reference = [payload EXCEPT !.isActive = TRUE]
        /\ reference \in Documents!DocumentReference
        /\ Anchors(documentId, reference, Undefined)
  BY <1>1, <1>2, <1>3, <1>4, FirstVersionAnchors
<1>6. reference.documentType = documentType /\ reference.caseId = caseId
  BY <1>3, <1>4, <1>5, ReferenceActivated
<1> QED
  BY <1>5, <1>6

\* It counts nothing, and its document is there afterwards.
LEMMA UploadCounted ==
  ASSUME ChaincodeInv, TrailsCounted, NEW documentId \in DocumentIds,
         NEW caseId \in CaseIds, NEW documentType, NEW actor,
         uploadDocument(documentId, caseId, documentType, actor)
  PROVE  /\ LedgerKept
         /\ CountsNone
         /\ documents'[documentId] # NoDocument
         /\ documents'[documentId].documentType = documentType
<1>1. UNCHANGED <<stateIndex, events>>
  BY DEF uploadDocument
<1>2. PICK reference \in Documents!DocumentReference :
        /\ Anchors(documentId, reference, Undefined)
        /\ reference.documentType = documentType
        /\ reference.caseId = caseId
  BY UploadAnchors
<1>3. ChaincodeInv' /\ ReferencesKept
  BY <1>2, LedgerStepKeeps DEF LedgerStep
<1>4. documents' = [documents EXCEPT ![documentId] = reference]
  BY <1>2 DEF Anchors
<1>5. documents'[documentId] = reference
  BY <1>4 DEF ChaincodeInv, ReferencesTyped
<1>6. cases \in [CaseIds -> AssuranceCase \cup {NoCase}]
  BY DEF ChaincodeInv, IInv, TypeOK
<1>7. PICK ids \in SUBSET DocumentIds : Relists(caseId, ids)
  <2>1. Relists(caseId, (cases[caseId].activeDocumentIds \ {Undefined})
                          \cup {documentId})
    BY <1>2 DEF Anchors
  <2>2. cases[caseId].activeDocumentIds \in SUBSET DocumentIds
    BY <1>6, <2>1 DEF Relists, Exists, AssuranceCase
  <2> QED
    BY <2>1, <2>2
<1>8. ASSUME NEW other \in CaseIds
       PROVE  /\ Exists(other)' <=> Exists(other)
              /\ Exists(other) =>
                   /\ cases'[other].currentState = cases[other].currentState
                   /\ cases'[other].currentSubstate = cases[other].currentSubstate
  <2>1. CASE other # caseId
    BY <1>6, <1>7, <2>1 DEF Relists, Exists
  <2>2. CASE other = caseId
    <3>1. /\ cases[caseId] \in AssuranceCase
          /\ cases'[caseId] = [cases[caseId] EXCEPT !.activeDocumentIds = ids]
          /\ Exists(caseId)
      BY <1>6, <1>7 DEF Relists, Exists
    <3>2. /\ cases'[caseId].currentState = cases[caseId].currentState
          /\ cases'[caseId].currentSubstate = cases[caseId].currentSubstate
      BY <3>1 DEF AssuranceCase
    <3>3. cases'[caseId] # NoCase
      BY <1>7, <3>1, RelistedRecord, CaseContractAssumption
      DEF ChaincodeInv, IInv, RecordInv
    <3> QED
      BY <2>2, <3>1, <3>2, <3>3 DEF Exists
  <2> QED
    BY <2>1, <2>2
<1>9. UNCHANGED events
  BY <1>1
<1>10. TrailsCounted' /\ CountsNone
  BY <1>8, <1>9, QuietCounted
<1>11. reference # NoDocument
  BY <1>2, NoDocumentAssumption
<1> QED
  BY <1>2, <1>3, <1>5, <1>8, <1>10, <1>11 DEF LedgerKept

-----------------------------------------------------------------------------
(* The exchanges and their log. *)

\* An exchange that has been carried out and is not in the log yet.
Recording(exchange, caseId, kind) ==
  exchange.step = "record" /\ exchange.caseId = caseId /\ exchange.kind = kind

\* The step of an exchange tells its kind of record.
LEMMA ExchangeSteps ==
  ASSUME NEW exchange \in ExchangeRecord
  PROVE  /\ exchange.step \in {"createDraft", "uploadManifest"} => exchange \in Intake
         /\ exchange.step = "uploadDecision" => exchange \in Announced
         /\ exchange.step = "transitionCase" => exchange \in Message
         /\ exchange.step = "record" => exchange \in Intake \cup Message
BY DEF ExchangeRecord, Idle, Intake, Message, Announced

\* The kinds of message have rules of their own.
LEMMA RuleOfKinds ==
  /\ DOMAIN RuleOf \subseteq ExchangeKinds
  /\ "domestic_intake" \in ExchangeKinds \ DOMAIN RuleOf
  /\ DOMAIN DecisionDocument \subseteq DOMAIN RuleOf
  /\ \A kind \in DOMAIN RuleOf :
       RuleOf[kind] \in TRANSITIONS /\ RuleOf[kind].action \in WorkflowActions
  /\ \A kind, other \in DOMAIN RuleOf :
       RuleOf[kind].action = RuleOf[other].action => kind = other
  /\ ForeignKinds \subseteq DOMAIN RuleOf
<1>1. DOMAIN RuleOf = {"foreign_acknowledgement", "approved", "rejected",
                       "more_information_requested"}
  BY DEF RuleOf
<1>2. DOMAIN DecisionDocument = {"approved", "more_information_requested"}
  BY DEF DecisionDocument
<1>3. /\ RuleOf["foreign_acknowledgement"] = RecordForeignReviewRule
      /\ RuleOf["approved"] = ApproveCaseRule
      /\ RuleOf["rejected"] = RejectCaseRule
      /\ RuleOf["more_information_requested"] = RequestMoreInformationRule
  BY DEF RuleOf
<1>4. /\ RecordForeignReviewRule.action = "record_foreign_review"
      /\ ApproveCaseRule.action = "approve_case"
      /\ RejectCaseRule.action = "reject_case"
      /\ RequestMoreInformationRule.action = "request_more_information"
  BY DEF RecordForeignReviewRule, ApproveCaseRule, RejectCaseRule,
         RequestMoreInformationRule, Rule
<1>5. {RecordForeignReviewRule, ApproveCaseRule, RejectCaseRule,
       RequestMoreInformationRule} \subseteq TRANSITIONS
  BY DEF TRANSITIONS
<1> QED
  BY <1>1, <1>2, <1>3, <1>4, <1>5
  DEF ExchangeKinds, Decisions, ForeignKinds, WorkflowActions

\* Unrecorded follows the one exchange that takes a step.
LEMMA UnrecordedMoves ==
  ASSUME ExchangesTyped, NEW x \in Exchanges, NEW r, Become(x, r),
         NEW caseId, NEW kind
  PROVE  /\ Unrecorded(caseId, kind) \in Nat
         /\ Unrecorded(caseId, kind)'
              = Unrecorded(caseId, kind)
                  - Bit(Recording(exchanges[x], caseId, kind))
                  + Bit(Recording(r, caseId, kind))
<1> DEFINE U == {y \in Exchanges : Recording(exchanges[y], caseId, kind)}
           V == {y \in Exchanges : Recording(exchanges'[y], caseId, kind)}
<1>1. /\ Unrecorded(caseId, kind) = Cardinality(U)
      /\ Unrecorded(caseId, kind)' = Cardinality(V)
  BY DEF Unrecorded, Recording
<1>2. IsFiniteSet(U) /\ IsFiniteSet(V)
  BY SimulatorAssumption, FS_Subset
<1>3. Cardinality(U) \in Nat /\ Cardinality(V) \in Nat
  BY <1>2, FS_CardinalityType
<1>4. /\ exchanges'[x] = r
      /\ \A y \in Exchanges \ {x} : exchanges'[y] = exchanges[y]
  BY DEF Become, ExchangesTyped
<1>5. CASE Recording(r, caseId, kind)
  <2>1. V = U \cup {x}
    BY <1>4, <1>5
  <2>2. x \in U <=> Recording(exchanges[x], caseId, kind)
    OBVIOUS
  <2> HIDE DEF U, V
  <2> QED
    BY <1>1, <1>2, <1>3, <1>5, <2>1, <2>2, FS_AddElement DEF Bit
<1>6. CASE ~Recording(r, caseId, kind)
  <2>1. V = U \ {x}
    BY <1>4, <1>6
  <2>2. x \in U <=> Recording(exchanges[x], caseId, kind)
    OBVIOUS
  <2> HIDE DEF U, V
  <2> QED
    BY <1>1, <1>2, <1>3, <1>6, <2>1, <2>2, FS_RemoveElement DEF Bit
<1> QED
  BY <1>5, <1>6

\* What is recorded grows no faster than what it stands for.
LogGrows ==
  \A caseId \in CaseIds :
    /\ \A kind \in DOMAIN RuleOf :
         /\ Applied(caseId, kind)' \in Int /\ Caused(caseId, kind)' \in Int
         /\ Applied(caseId, kind)' + Caused(caseId, kind)
              <= Applied(caseId, kind) + Caused(caseId, kind)'
    /\ ~disturbed' =>
         /\ ~disturbed
         /\ \A kind \in ForeignKinds :
              Applied(caseId, kind)' + Caused(caseId, kind)
                = Applied(caseId, kind) + Caused(caseId, kind)'

\* The two sides are numbers.
LEMMA LogTyped ==
  ASSUME ExchangesTyped, TrailsCounted, NEW caseId \in CaseIds,
         NEW kind \in DOMAIN RuleOf
  PROVE  /\ exchangeLog[caseId][kind] \in Nat
         /\ Unrecorded(caseId, kind) \in Nat
         /\ Applied(caseId, kind) \in Nat
         /\ Caused(caseId, kind) \in Nat
         /\ Caused(caseId, kind) = TrailCount(caseId)[RuleOf[kind].action]
<1>1. exchangeLog[caseId][kind] \in Nat
  BY RuleOfKinds DEF ExchangesTyped
<1>2. Unrecorded(caseId, kind) \in Nat
  <2>1. IsFiniteSet({x \in Exchanges :
          /\ exchanges[x].step = "record"
          /\ exchanges[x].caseId = caseId /\ exchanges[x].kind = kind})
    BY SimulatorAssumption, FS_Subset
  <2> QED
    BY <2>1, FS_CardinalityType DEF Unrecorded
<1>3. Caused(caseId, kind) = TrailCount(caseId)[RuleOf[kind].action]
  BY RuleOfKinds DEF Caused, TrailCount
<1>4. TrailCount(caseId) \in [WorkflowActions -> Nat]
  BY CountsTyped DEF TrailsCounted
<1>5. TrailCount(caseId)[RuleOf[kind].action] \in Nat
  BY <1>4, RuleOfKinds
<1> QED
  BY <1>1, <1>2, <1>3, <1>5 DEF Applied

\* Such growth keeps the log covered.
LEMMA LogKept ==
  ASSUME SimulatorInv, LogGrows
  PROVE  LogCovered'
<1>1. \A caseId \in CaseIds : \A kind \in DOMAIN RuleOf :
        Applied(caseId, kind) \in Nat /\ Caused(caseId, kind) \in Nat
  BY LogTyped DEF SimulatorInv
<1>2. ASSUME NEW caseId \in CaseIds, NEW kind \in DOMAIN RuleOf
      PROVE  Applied(caseId, kind)' <= Caused(caseId, kind)'
  <2>1. Applied(caseId, kind) <= Caused(caseId, kind)
    BY DEF SimulatorInv, LogCovered
  <2> QED
    BY <1>1, <2>1 DEF LogGrows
<1>3. ASSUME NEW caseId \in CaseIds, ~disturbed', NEW kind \in ForeignKinds
      PROVE  Applied(caseId, kind)' = Caused(caseId, kind)'
  <2>1. kind \in DOMAIN RuleOf
    BY RuleOfKinds
  <2>2. Applied(caseId, kind) = Caused(caseId, kind)
    BY <1>3 DEF SimulatorInv, LogCovered, LogGrows
  <2> QED
    BY <1>1, <1>3, <2>1, <2>2 DEF LogGrows
<1> QED
  BY <1>2, <1>3 DEF LogCovered

\* What is applied changes with the log and with the exchange that steps.
LEMMA AppliedMoves ==
  ASSUME SimulatorInv, NEW x \in Exchanges, NEW r, Become(x, r),
         UNCHANGED exchangeLog, NEW caseId \in CaseIds, NEW kind \in DOMAIN RuleOf
  PROVE  Applied(caseId, kind)'
           = Applied(caseId, kind)
               - Bit(Recording(exchanges[x], caseId, kind))
               + Bit(Recording(r, caseId, kind))
<1>1. /\ exchangeLog[caseId][kind] \in Nat
      /\ Unrecorded(caseId, kind) \in Nat
  BY LogTyped DEF SimulatorInv
<1>2. Unrecorded(caseId, kind)'
        = Unrecorded(caseId, kind)
            - Bit(Recording(exchanges[x], caseId, kind))
            + Bit(Recording(r, caseId, kind))
  BY UnrecordedMoves DEF SimulatorInv
<1> QED
  BY <1>1, <1>2 DEF Applied, Bit

\* What causes it changes with the event of the step.
LEMMA CausedMoves ==
  ASSUME SimulatorInv, NEW caseId \in CaseIds, NEW kind \in DOMAIN RuleOf
  PROVE  /\ CountsNone => Caused(caseId, kind)' = Caused(caseId, kind)
         /\ \A home \in CaseIds, action \in WorkflowActions :
              CountsOne(home, action) =>
                Caused(caseId, kind)'
                  = Caused(caseId, kind)
                      + Bit(home = caseId /\ RuleOf[kind].action = action)
<1> DEFINE cause == RuleOf[kind].action
<1>1. /\ cause \in WorkflowActions
      /\ Caused(caseId, kind) \in Nat
      /\ Caused(caseId, kind) = TrailCount(caseId)[cause]
  BY LogTyped, RuleOfKinds DEF SimulatorInv
<1>2. Caused(caseId, kind)' = TrailCount(caseId)'[cause]
  BY <1>1 DEF Caused, TrailCount
<1> HIDE DEF cause
<1>3. CountsNone => Caused(caseId, kind)' = Caused(caseId, kind)
  BY <1>1, <1>2 DEF CountsNone
<1>4. ASSUME NEW home \in CaseIds, NEW action \in WorkflowActions,
             CountsOne(home, action)
      PROVE  Caused(caseId, kind)'
               = Caused(caseId, kind) + Bit(home = caseId /\ cause = action)
  <2>1. CASE home = caseId
    <3>1. TrailCount(caseId)'[cause] = TrailCount(caseId)[cause] + Bit(cause = action)
      BY <1>1, <1>4, <2>1 DEF CountsOne, Counted
    <3> QED
      BY <1>1, <1>2, <2>1, <3>1 DEF Bit
  <2>2. CASE home # caseId
    BY <1>1, <1>2, <1>4, <2>2 DEF CountsOne, Bit
  <2> QED
    BY <2>1, <2>2
<1> QED
  BY <1>3, <1>4 DEF cause

\* A step that carries nothing out and causes nothing of the foreign
\* regulator's leaves the log as good as it was.
LEMMA QuietLog ==
  ASSUME SimulatorInv, UNCHANGED <<exchangeLog, disturbed>>,
         \/ UNCHANGED exchanges
         \/ \E x \in Exchanges, r \in ExchangeRecord :
              /\ Become(x, r)
              /\ \A caseId \in CaseIds, kind \in DOMAIN RuleOf :
                   /\ ~Recording(exchanges[x], caseId, kind)
                   /\ ~Recording(r, caseId, kind),
         \/ CountsNone
         \/ \E home \in CaseIds, action \in WorkflowActions :
              /\ CountsOne(home, action)
              /\ \A kind \in ForeignKinds : RuleOf[kind].action # action
  PROVE  LogGrows
<1>1. ASSUME NEW caseId \in CaseIds, NEW kind \in DOMAIN RuleOf
      PROVE  /\ Applied(caseId, kind)' \in Int /\ Caused(caseId, kind)' \in Int
             /\ Applied(caseId, kind)' = Applied(caseId, kind)
             /\ Caused(caseId, kind)' >= Caused(caseId, kind)
             /\ kind \in ForeignKinds =>
                  Caused(caseId, kind)' = Caused(caseId, kind)
  <2>1. Applied(caseId, kind) \in Nat /\ Caused(caseId, kind) \in Nat
    BY LogTyped DEF SimulatorInv
  <2>2. Applied(caseId, kind)' = Applied(caseId, kind)
    <3>1. CASE UNCHANGED exchanges
      BY <3>1 DEF Applied, Unrecorded
    <3>2. ASSUME NEW x \in Exchanges, NEW r \in ExchangeRecord, Become(x, r),
                 ~Recording(exchanges[x], caseId, kind),
                 ~Recording(r, caseId, kind)
          PROVE  Applied(caseId, kind)' = Applied(caseId, kind)
      BY <2>1, <3>2, AppliedMoves DEF Bit
    <3> QED
      BY <3>1, <3>2
  <2>3. /\ Caused(caseId, kind)' \in Int
        /\ Caused(caseId, kind)' >= Caused(caseId, kind)
        /\ kind \in ForeignKinds => Caused(caseId, kind)' = Caused(caseId, kind)
    <3>1. CASE CountsNone
      BY <2>1, <3>1, CausedMoves
    <3>2. ASSUME NEW home \in CaseIds, NEW action \in WorkflowActions,
                 CountsOne(home, action),
                 \A other \in ForeignKinds : RuleOf[other].action # action
          PROVE  /\ Caused(caseId, kind)' \in Int
                 /\ Caused(caseId, kind)' >= Caused(caseId, kind)
                 /\ kind \in ForeignKinds =>
                      Caused(caseId, kind)' = Caused(caseId, kind)
      BY <2>1, <3>2, CausedMoves DEF Bit
    <3> QED
      BY <3>1, <3>2
  <2> QED
    BY <2>1, <2>2, <2>3
<1>2. ForeignKinds \subseteq DOMAIN RuleOf
  BY RuleOfKinds
<1>3. \A caseId \in CaseIds : \A kind \in DOMAIN RuleOf :
        Applied(caseId, kind) \in Nat /\ Caused(caseId, kind) \in Nat
  BY LogTyped DEF SimulatorInv
<1> QED
  BY <1>1, <1>2, <1>3 DEF LogGrows

-----------------------------------------------------------------------------
(* The steps of the simulator. *)

\* Uploaded documents stay, with their types, and cases stay.
LEMMA IntakeKept ==
  ASSUME ChaincodeInv, LedgerKept, NEW exchange \in ExchangeRecord,
         IntakeComplete(exchange)
  PROVE  IntakeComplete(exchange)'
<1> SUFFICES ASSUME exchange.step \in {"createDraft", "uploadManifest"}
             PROVE  IntakeComplete(exchange)'
  BY DEF IntakeComplete
<1>1. exchange.caseId \in CaseIds /\ exchange.uploaded \subseteq DocumentIds
  BY ExchangeSteps DEF Intake
<1>2. ASSUME NEW d \in exchange.uploaded
      PROVE  /\ documents'[d] # NoDocument
             /\ documents'[d].documentType = documents[d].documentType
  <2>1. d \in DocumentIds /\ documents[d] # NoDocument
    BY <1>1 DEF IntakeComplete
  <2>2. documents[d] \in Documents!DocumentReference
    BY <2>1 DEF ChaincodeInv, ReferencesTyped
  <2>3. \/ documents'[d] = documents[d]
        \/ documents'[d] = [documents[d] EXCEPT !.isActive = FALSE]
    BY <2>1 DEF LedgerKept, ReferencesKept
  <2>4. PICK reference \in Documents!DocumentReference : reference = documents[d]
    BY <2>2
  <2>5. /\ [reference EXCEPT !.isActive = FALSE] \in Documents!DocumentReference
        /\ [reference EXCEPT !.isActive = FALSE].documentType = reference.documentType
    BY DEF Documents!DocumentReference
  <2> QED
    BY <2>1, <2>3, <2>4, <2>5, NoDocumentAssumption
<1>3. Exists(exchange.caseId) => Exists(exchange.caseId)'
  BY <1>1 DEF LedgerKept
<1>4. {documents'[d].documentType : d \in exchange.uploaded}
        = {documents[d].documentType : d \in exchange.uploaded}
  BY <1>2
<1> QED
  BY <1>2, <1>3, <1>4 DEF IntakeComplete

\* One exchange steps, the others and the ledger keep what they had.
LEMMA ExchangeKept ==
  ASSUME SimulatorInv, LedgerKept, LogGrows,
         NEW x \in Exchanges, NEW r \in ExchangeRecord, Become(x, r),
         IntakeComplete(r)', disturbed' \in BOOLEAN,
         exchangeLog' \in [CaseIds -> [ExchangeKinds -> Nat]]
  PROVE  SimulatorInv'
<1>1. exchanges \in [Exchanges -> ExchangeRecord]
  BY DEF SimulatorInv, ExchangesTyped
<1>2. /\ exchanges' = [exchanges EXCEPT ![x] = r]
      /\ exchanges' \in [Exchanges -> ExchangeRecord]
  BY <1>1 DEF Become
<1>3. ExchangesTyped'
  BY <1>2 DEF ExchangesTyped
<1>4. IntakesComplete'
  <2> SUFFICES ASSUME NEW y \in Exchanges PROVE IntakeComplete(exchanges[y])'
    BY DEF IntakesComplete
  <2>1. CASE y = x
    <3>1. exchanges'[y] = r
      BY <1>1, <1>2, <2>1
    <3> QED
      BY <3>1 DEF IntakeComplete
  <2>2. CASE y # x
    <3>1. PICK exchange \in ExchangeRecord :
            exchange = exchanges[y] /\ exchange = exchanges'[y]
      BY <1>1, <1>2, <2>2
    <3>2. IntakeComplete(exchange)
      BY <3>1 DEF SimulatorInv, IntakesComplete
    <3>3. IntakeComplete(exchange)'
      BY <3>2, IntakeKept DEF SimulatorInv
    <3> QED
      BY <3>1, <3>3 DEF IntakeComplete
  <2> QED
    BY <2>1, <2>2
<1>5. LogCovered'
  BY LogKept
<1> QED
  BY <1>3, <1>4, <1>5 DEF SimulatorInv, LedgerKept

\* An exchange that takes a step without being carried out.
LEMMA QuietExchangeKept ==
  ASSUME SimulatorInv, LedgerKept, UNCHANGED <<exchangeLog, disturbed>>,
         NEW x \in Exchanges, NEW r \in ExchangeRecord, Become(x, r),
         IntakeComplete(r)',
         exchanges[x].step # "record",
         r.step = "record" => r.kind = "domestic_intake",
         \/ CountsNone
         \/ \E home \in CaseIds, action \in WorkflowActions :
              /\ CountsOne(home, action)
              /\ \A kind \in ForeignKinds : RuleOf[kind].action # action
  PROVE  SimulatorInv'
<1>1. \A caseId \in CaseIds, kind \in DOMAIN RuleOf :
        /\ ~Recording(exchanges[x], caseId, kind)
        /\ ~Recording(r, caseId, kind)
  BY RuleOfKinds DEF Recording
<1>2. LogGrows
  BY <1>1, QuietLog
<1> QED
  BY <1>2, ExchangeKept DEF SimulatorInv, ExchangesTyped

\* The actions that no message of the log stands for.
LEMMA OtherActions ==
  \A kind \in ForeignKinds :
    RuleOf[kind].action \notin {"create_case", "submit_case"}
BY DEF ForeignKinds, RuleOf, RecordForeignReviewRule, ApproveCaseRule, Rule

\* A message arrives.
LEMMA ReceiveKept ==
  ASSUME SimulatorInv, NEW x \in Exchanges, Receive(x)
  PROVE  SimulatorInv'
<1>1. PICK caseId \in CaseIds :
        \/ \E manifest \in Manifests, autoSubmit \in BOOLEAN :
             receiveIntake(x, caseId, manifest, autoSubmit)
        \/ receiveAcknowledgement(x, caseId)
        \/ \E decision \in Decisions : receiveDecision(x, caseId, decision)
  BY DEF Receive
<1>2. UNCHANGED <<chaincodeVars, exchangeLog, disturbed>> /\ exchanges[x] = Idle
  BY <1>1 DEF receiveIntake, receiveAcknowledgement, receiveDecision
<1>3. LedgerKept /\ CountsNone
  BY <1>2, UnchangedCounted DEF SimulatorInv
<1>4. exchanges[x].step # "record"
  BY <1>2 DEF Idle
<1>5. ASSUME NEW manifest \in Manifests, NEW autoSubmit \in BOOLEAN,
             receiveIntake(x, caseId, manifest, autoSubmit)
      PROVE  SimulatorInv'
  <2> DEFINE inline == {i \in DOMAIN manifest : manifest[i].inline}
             given == [kind |-> "domestic_intake", step |-> "createDraft",
                       caseId |-> caseId, autoSubmit |-> autoSubmit,
                       manifest |-> manifest, pending |-> inline,
                       uploaded |-> {}]
  <2>1. inline \subseteq Nat
    BY SimulatorAssumption
  <2>2. given \in Intake
    BY <2>1 DEF Intake
  <2>3. Become(x, given)
    BY <1>5 DEF receiveIntake
  <2>4. autoSubmit =>
          REQUIRED_INTAKE_DOCUMENTS
            \subseteq {manifest[i].documentType : i \in inline}
    BY <1>5 DEF receiveIntake, assertDomesticIntakeMessage
  <2>5. IntakeComplete(given)'
    BY <2>4 DEF IntakeComplete
  <2> HIDE DEF given
  <2>6. given \in ExchangeRecord /\ given.step = "createDraft"
    BY <2>2 DEF ExchangeRecord, given
  <2> QED
    BY <1>2, <1>3, <1>4, <2>3, <2>5, <2>6, QuietExchangeKept
<1>6. CASE receiveAcknowledgement(x, caseId)
  <2> DEFINE given == [kind |-> "foreign_acknowledgement",
                       step |-> "transitionCase", caseId |-> caseId,
                       evidence |-> {}]
  <2>1. given \in Message /\ Become(x, given)
    BY <1>6 DEF Message, receiveAcknowledgement, RuleOf
  <2>2. IntakeComplete(given)'
    BY DEF IntakeComplete
  <2> HIDE DEF given
  <2>3. given \in ExchangeRecord /\ given.step = "transitionCase"
    BY <2>1 DEF ExchangeRecord, given
  <2> QED
    BY <1>2, <1>3, <1>4, <2>1, <2>2, <2>3, QuietExchangeKept
<1>7. ASSUME NEW decision \in Decisions, receiveDecision(x, caseId, decision)
      PROVE  SimulatorInv'
  <2> DEFINE given == [kind |-> decision, caseId |-> caseId, evidence |-> {},
                       step |-> IF decision = "rejected" THEN "transitionCase"
                                ELSE "uploadDecision"]
  <2>1. given \in Message \cup Announced /\ Become(x, given)
    BY <1>7
    DEF Message, Announced, receiveDecision, RuleOf, Decisions, DecisionDocument
  <2>2. IntakeComplete(given)'
    BY DEF IntakeComplete
  <2>3. given.step # "record"
    OBVIOUS
  <2> HIDE DEF given
  <2>4. given \in ExchangeRecord
    BY <2>1 DEF ExchangeRecord
  <2> QED
    BY <1>2, <1>3, <1>4, <2>1, <2>2, <2>3, <2>4, QuietExchangeKept
<1> QED
  BY <1>1, <1>5, <1>6, <1>7

\* An intake creates its draft, uploads its documents and submits the case.
LEMMA IntakeStepKept ==
  ASSUME SimulatorInv, NEW x \in Exchanges,
         \/ intakeDraft(x)
         \/ \E documentId \in DocumentIds : intakeUpload(x, documentId)
         \/ intakeSubmit(x)
         \/ intakeKeepDraft(x)
  PROVE  SimulatorInv'
<1>1. exchanges[x] \in ExchangeRecord /\ IntakeComplete(exchanges[x])
  BY DEF SimulatorInv, ExchangesTyped, IntakesComplete
<1>2. exchanges[x].step \in {"createDraft", "uploadManifest"}
  BY DEF intakeDraft, intakeUpload, intakeSubmit, intakeKeepDraft
<1>3. PICK exchange \in Intake : exchange = exchanges[x]
  BY <1>1, <1>2, ExchangeSteps
<1>4. exchange.caseId \in CaseIds /\ exchange.uploaded \in SUBSET DocumentIds
  BY DEF Intake
<1>5. ApplicantActor \in UserClaims
  BY SimulatorActors
<1>6. UNCHANGED <<exchangeLog, disturbed>>
  BY DEF intakeDraft, intakeUpload, intakeSubmit, intakeKeepDraft
<1>7. Intake \subseteq ExchangeRecord
  BY DEF ExchangeRecord
<1>8. "submit_case" \in WorkflowActions /\ "create_case" \in WorkflowActions
  BY DEF WorkflowActions
<1>9. CASE intakeDraft(x)
  <2>1. PICK r : r = [exchange EXCEPT !.step = "uploadManifest"]
    OBVIOUS
  <2>2. /\ r \in Intake
        /\ r.step = "uploadManifest"
        /\ r.caseId = exchange.caseId
        /\ r.autoSubmit = exchange.autoSubmit
        /\ r.manifest = exchange.manifest
        /\ r.pending = exchange.pending
        /\ r.uploaded = exchange.uploaded
    BY <2>1 DEF Intake
  <2>3. /\ exchange.step = "createDraft"
        /\ createCase(exchange.caseId, ApplicantActor)
        /\ UNCHANGED <<documents, caseDocuments>>
        /\ Become(x, r)
    BY <1>3, <1>9, <2>1 DEF intakeDraft
  <2>4. /\ LedgerKept
        /\ CountsOne(exchange.caseId, "create_case")
        /\ Exists(exchange.caseId)'
    BY <1>4, <1>5, <2>3, CreationCounted DEF SimulatorInv
  <2>5. IntakeComplete(exchange)'
    BY <1>1, <1>3, <2>4, IntakeKept DEF SimulatorInv
  <2>6. IntakeComplete(r)'
    BY <2>2, <2>3, <2>4, <2>5 DEF IntakeComplete
  <2> QED
    BY <1>2, <1>4, <1>6, <1>7, <1>8, <2>2, <2>3, <2>4, <2>6, OtherActions,
       QuietExchangeKept
<1>10. ASSUME NEW documentId \in DocumentIds, intakeUpload(x, documentId)
       PROVE  SimulatorInv'
  <2>1. PICK next \in exchange.pending :
          /\ uploadDocument(documentId, exchange.caseId,
                            exchange.manifest[next].documentType, ApplicantActor)
          /\ Become(x, [exchange EXCEPT !.pending = @ \ {next},
                                        !.uploaded = @ \cup {documentId}])
    BY <1>3, <1>10 DEF intakeUpload
  <2>2. PICK r : r = [exchange EXCEPT !.pending = @ \ {next},
                                      !.uploaded = @ \cup {documentId}]
    OBVIOUS
  <2>3. /\ r \in Intake
        /\ r.step = exchange.step
        /\ r.caseId = exchange.caseId
        /\ r.autoSubmit = exchange.autoSubmit
        /\ r.manifest = exchange.manifest
        /\ r.pending = exchange.pending \ {next}
        /\ r.uploaded = exchange.uploaded \cup {documentId}
    BY <2>2 DEF Intake
  <2>4. PICK type : type = exchange.manifest[next].documentType
    OBVIOUS
  <2>5. /\ LedgerKept
        /\ CountsNone
        /\ documents'[documentId] # NoDocument
        /\ documents'[documentId].documentType = type
    BY <1>4, <2>1, <2>4, UploadCounted DEF SimulatorInv
  <2>6. IntakeComplete(exchange)'
    BY <1>1, <1>3, <2>5, IntakeKept DEF SimulatorInv
  <2>7. IntakeComplete(r)'
    <3>1. {exchange.manifest[i].documentType : i \in exchange.pending}
            \cup {documents'[d].documentType : d \in exchange.uploaded}
          \subseteq {r.manifest[i].documentType : i \in r.pending}
                      \cup {documents'[d].documentType : d \in r.uploaded}
      BY <2>3, <2>4, <2>5
    <3> QED
      BY <2>3, <2>5, <2>6, <3>1 DEF IntakeComplete
  <2> QED
    BY <1>2, <1>3, <1>6, <1>7, <2>1, <2>2, <2>3, <2>5, <2>7, QuietExchangeKept
<1>11. CASE intakeSubmit(x)
  <2>1. PICK r : r = [exchange EXCEPT !.step = "record"]
    OBVIOUS
  <2>2. /\ r \in Intake
        /\ r.step = "record"
        /\ r.kind = "domestic_intake"
    BY <2>1 DEF Intake
  <2>3. PICK types : types = {documents[d].documentType : d \in exchange.uploaded}
    OBVIOUS
  <2>4. /\ transitionCase(exchange.caseId, SubmitCaseRule, ApplicantActor,
                          exchange.uploaded, types)
        /\ Become(x, r)
    BY <1>3, <1>11, <2>1, <2>3 DEF intakeSubmit
  <2>5. SubmitCaseRule \in TRANSITIONS /\ SubmitCaseRule.action = "submit_case"
    BY DEF TRANSITIONS, SubmitCaseRule, Rule
  <2>6. LedgerKept /\ CountsOne(exchange.caseId, "submit_case")
    BY <1>4, <1>5, <2>4, <2>5, TransitionCounted DEF SimulatorInv
  <2>7. IntakeComplete(r)'
    BY <2>2 DEF IntakeComplete
  <2> QED
    BY <1>2, <1>4, <1>6, <1>7, <1>8, <2>2, <2>4, <2>6, <2>7, OtherActions,
       QuietExchangeKept
<1>12. CASE intakeKeepDraft(x)
  <2>1. PICK r : r = [exchange EXCEPT !.step = "record"]
    OBVIOUS
  <2>2. /\ r \in Intake
        /\ r.step = "record"
        /\ r.kind = "domestic_intake"
    BY <2>1 DEF Intake
  <2>3. Become(x, r) /\ UNCHANGED chaincodeVars
    BY <1>3, <1>12, <2>1 DEF intakeKeepDraft
  <2>4. LedgerKept /\ CountsNone
    BY <2>3, UnchangedCounted DEF SimulatorInv
  <2>5. IntakeComplete(r)'
    BY <2>2 DEF IntakeComplete
  <2> QED
    BY <1>2, <1>6, <1>7, <2>2, <2>3, <2>4, <2>5, QuietExchangeKept
<1> QED
  BY <1>9, <1>10, <1>11, <1>12

\* An exchange that a refusal ends.
LEMMA RefusalKept ==
  ASSUME SimulatorInv, NEW x \in Exchanges,
         intakeRefused(x) \/ uploadUnknownCase(x) \/ messageRefused(x)
  PROVE  SimulatorInv'
<1>1. /\ UNCHANGED <<chaincodeVars, exchangeLog, disturbed>>
      /\ Become(x, Idle)
      /\ exchanges[x].step # "record"
  BY DEF intakeRefused, uploadUnknownCase, messageRefused
<1>2. LedgerKept /\ CountsNone
  BY <1>1, UnchangedCounted DEF SimulatorInv
<1>3. IntakeComplete(Idle)' /\ Idle.step # "record" /\ Idle \in ExchangeRecord
  BY DEF IntakeComplete, Idle, ExchangeRecord
<1> QED
  BY <1>1, <1>2, <1>3, QuietExchangeKept

\* A decision's document is uploaded.
LEMMA DecisionUploadKept ==
  ASSUME SimulatorInv, NEW x \in Exchanges, NEW documentId \in DocumentIds,
         uploadDecision(x, documentId)
  PROVE  SimulatorInv'
<1>1. exchanges[x] \in ExchangeRecord /\ exchanges[x].step = "uploadDecision"
  BY DEF SimulatorInv, ExchangesTyped, uploadDecision
<1>2. PICK exchange \in Announced : exchange = exchanges[x]
  BY <1>1, ExchangeSteps
<1>3. PICK r : r = [exchange EXCEPT !.step = "transitionCase",
                                    !.evidence = {documentId}]
  OBVIOUS
<1>4. r \in Message /\ r.step = "transitionCase" /\ exchange.caseId \in CaseIds
  BY <1>3, RuleOfKinds DEF Announced, Message
<1>5. PICK type : type = DecisionDocument[exchange.kind]
  OBVIOUS
<1>6. /\ uploadDocument(documentId, exchange.caseId, type, FOREIGN_ACTOR)
      /\ Become(x, r)
      /\ UNCHANGED <<exchangeLog, disturbed>>
  BY <1>2, <1>3, <1>5 DEF uploadDecision
<1>7. LedgerKept /\ CountsNone
  BY <1>4, <1>6, UploadCounted DEF SimulatorInv
<1>8. IntakeComplete(r)' /\ r \in ExchangeRecord
  BY <1>4 DEF IntakeComplete, ExchangeRecord
<1> QED
  BY <1>1, <1>4, <1>6, <1>7, <1>8, QuietExchangeKept

\* A message takes its effect: one event of its rule, one exchange to record.
LEMMA ApplyKept ==
  ASSUME SimulatorInv, NEW x \in Exchanges, applyMessage(x)
  PROVE  SimulatorInv'
<1>1. exchanges[x] \in ExchangeRecord /\ exchanges[x].step = "transitionCase"
  BY DEF SimulatorInv, ExchangesTyped, applyMessage
<1>2. PICK exchange \in Message : exchange = exchanges[x]
  BY <1>1, ExchangeSteps
<1>3. /\ exchange.caseId \in CaseIds
      /\ exchange.kind \in DOMAIN RuleOf
      /\ exchange.evidence \in SUBSET DocumentIds
  BY DEF Message
<1>4. PICK r : r = [exchange EXCEPT !.step = "record"]
  OBVIOUS
<1>5. /\ r \in Message
      /\ r.step = "record"
      /\ r.caseId = exchange.caseId
      /\ r.kind = exchange.kind
  BY <1>4 DEF Message
<1>6. PICK rule \in TRANSITIONS : rule = RuleOf[exchange.kind]
  BY <1>3, RuleOfKinds
<1>7. /\ transitionCase(exchange.caseId, rule, FOREIGN_ACTOR,
                        exchange.evidence, EvidenceTypes(exchange.kind))
      /\ Become(x, r)
      /\ UNCHANGED <<exchangeLog, disturbed>>
  BY <1>2, <1>4, <1>6 DEF applyMessage
<1>8. FOREIGN_ACTOR \in UserClaims
  BY SimulatorActors
<1>9. LedgerKept /\ CountsOne(exchange.caseId, rule.action)
  BY <1>3, <1>7, <1>8, TransitionCounted DEF SimulatorInv
<1>10. ASSUME NEW caseId \in CaseIds, NEW kind \in DOMAIN RuleOf
       PROVE  /\ Applied(caseId, kind) \in Nat
              /\ Caused(caseId, kind) \in Nat
              /\ Applied(caseId, kind)' \in Int
              /\ Caused(caseId, kind)' \in Int
              /\ Applied(caseId, kind)' + Caused(caseId, kind)
                   = Applied(caseId, kind) + Caused(caseId, kind)'
  <2>1. Applied(caseId, kind) \in Nat /\ Caused(caseId, kind) \in Nat
    BY LogTyped DEF SimulatorInv
  <2>2. Applied(caseId, kind)'
          = Applied(caseId, kind)
              + Bit(exchange.caseId = caseId /\ exchange.kind = kind)
    BY <1>1, <1>5, <1>7, <2>1, AppliedMoves DEF Bit, Recording
  <2>3. Caused(caseId, kind)'
          = Caused(caseId, kind)
              + Bit(exchange.caseId = caseId /\ RuleOf[kind].action = rule.action)
    BY <1>3, <1>6, <1>9, RuleOfKinds, CausedMoves
  <2>4. RuleOf[kind].action = rule.action <=> exchange.kind = kind
    BY <1>3, <1>6, RuleOfKinds
  <2> QED
    BY <2>1, <2>2, <2>3, <2>4 DEF Bit
<1>11. LogGrows
  BY <1>7, <1>10, RuleOfKinds DEF LogGrows
<1>12. IntakeComplete(r)' /\ r \in ExchangeRecord
  BY <1>5 DEF IntakeComplete, ExchangeRecord
<1> QED
  BY <1>7, <1>9, <1>11, <1>12, ExchangeKept DEF SimulatorInv, ExchangesTyped

\* The record of an exchange replaces the exchange.
LEMMA RecordKept ==
  ASSUME SimulatorInv, NEW x \in Exchanges, recordApplied(x)
  PROVE  SimulatorInv'
<1>1. exchanges[x] \in ExchangeRecord /\ exchanges[x].step = "record"
  BY DEF SimulatorInv, ExchangesTyped, recordApplied
<1>2. PICK exchange \in Intake \cup Message : exchange = exchanges[x]
  BY <1>1, ExchangeSteps
<1>3. exchange.caseId \in CaseIds /\ exchange.kind \in ExchangeKinds
  BY RuleOfKinds DEF Intake, Message
<1>4. /\ exchangeLog' = [exchangeLog EXCEPT ![exchange.caseId][exchange.kind] = @ + 1]
      /\ Become(x, Idle)
      /\ UNCHANGED <<chaincodeVars, disturbed>>
  BY <1>2 DEF recordApplied, recordExchange
<1>5. exchangeLog \in [CaseIds -> [ExchangeKinds -> Nat]]
  BY DEF SimulatorInv, ExchangesTyped
<1>6. exchangeLog' \in [CaseIds -> [ExchangeKinds -> Nat]]
  BY <1>3, <1>4, <1>5
<1>7. LedgerKept /\ CountsNone
  BY <1>4, UnchangedCounted DEF SimulatorInv
<1>8. ASSUME NEW caseId \in CaseIds, NEW kind \in DOMAIN RuleOf
      PROVE  /\ Applied(caseId, kind) \in Nat
             /\ Caused(caseId, kind) \in Nat
             /\ Applied(caseId, kind)' = Applied(caseId, kind)
             /\ Caused(caseId, kind)' = Caused(caseId, kind)
  <2>1. /\ exchangeLog[caseId][kind] \in Nat
        /\ Unrecorded(caseId, kind) \in Nat
        /\ Applied(caseId, kind) \in Nat
        /\ Caused(caseId, kind) \in Nat
    BY LogTyped DEF SimulatorInv
  <2>2. exchangeLog'[caseId][kind]
          = exchangeLog[caseId][kind]
              + Bit(exchange.caseId = caseId /\ exchange.kind = kind)
    BY <1>3, <1>4, <1>5, <2>1, RuleOfKinds DEF Bit
  <2>3. Unrecorded(caseId, kind)'
          = Unrecorded(caseId, kind)
              - Bit(exchange.caseId = caseId /\ exchange.kind = kind)
    BY <1>1, <1>2, <1>4, <2>1, UnrecordedMoves
    DEF SimulatorInv, Recording, Idle, Bit
  <2>4. Applied(caseId, kind)' = Applied(caseId, kind)
    BY <2>1, <2>2, <2>3 DEF Applied, Bit
  <2>5. Caused(caseId, kind)' = Caused(caseId, kind)
    BY <1>7, CausedMoves
  <2> QED
    BY <2>1, <2>4, <2>5
<1>9. LogGrows
  BY <1>4, <1>8, RuleOfKinds DEF LogGrows
<1>10. IntakeComplete(Idle)' /\ Idle \in ExchangeRecord
  BY DEF IntakeComplete, Idle, ExchangeRecord
<1> QED
  BY <1>4, <1>6, <1>7, <1>9, <1>10, ExchangeKept DEF SimulatorInv, ExchangesTyped

\* A failing call may lose the record of what it carried out.
LEMMA FailureKept ==
  ASSUME SimulatorInv, NEW x \in Exchanges, failExchange(x)
  PROVE  SimulatorInv'
<1>1. /\ Become(x, Idle)
      /\ disturbed' = TRUE
      /\ UNCHANGED <<chaincodeVars, exchangeLog>>
  BY DEF failExchange
<1>2. LedgerKept /\ CountsNone
  BY <1>1, UnchangedCounted DEF SimulatorInv
<1>3. ASSUME NEW caseId \in CaseIds, NEW kind \in DOMAIN RuleOf
      PROVE  /\ Applied(caseId, kind) \in Nat
             /\ Caused(caseId, kind) \in Nat
             /\ Applied(caseId, kind)' \in Int
             /\ Applied(caseId, kind)' <= Applied(caseId, kind)
             /\ Caused(caseId, kind)' = Caused(caseId, kind)
  <2>1. Applied(caseId, kind) \in Nat /\ Caused(caseId, kind) \in Nat
    BY LogTyped DEF SimulatorInv
  <2>2. ~Recording(Idle, caseId, kind)
    BY DEF Recording, Idle
  <2>3. Applied(caseId, kind)'
          = Applied(caseId, kind) - Bit(Recording(exchanges[x], caseId, kind))
    BY <1>1, <2>1, <2>2, AppliedMoves DEF Bit
  <2> QED
    BY <1>2, <2>1, <2>3, CausedMoves DEF Bit
<1>4. LogGrows
  BY <1>1, <1>3 DEF LogGrows
<1>5. IntakeComplete(Idle)' /\ Idle \in ExchangeRecord
  BY DEF IntakeComplete, Idle, ExchangeRecord
<1>6. exchangeLog' \in [CaseIds -> [ExchangeKinds -> Nat]]
  BY <1>1 DEF SimulatorInv, ExchangesTyped
<1> QED
  BY <1>1, <1>2, <1>4, <1>5, <1>6, ExchangeKept

\* A crash loses every exchange and the log.
LEMMA CrashKept ==
  ASSUME SimulatorInv, crash
  PROVE  SimulatorInv'
<1>1. LedgerKept /\ CountsNone
  BY UnchangedCounted DEF SimulatorInv, crash
<1>2. ExchangesTyped' /\ disturbed'
  BY DEF crash, ExchangesTyped, ExchangeRecord
<1>3. \A y \in Exchanges : exchanges'[y] = Idle
  BY DEF crash
<1>4. IntakesComplete'
  BY <1>3 DEF IntakesComplete, IntakeComplete, Idle
<1>5. ASSUME NEW caseId \in CaseIds, NEW kind \in DOMAIN RuleOf
      PROVE  Applied(caseId, kind)' <= Caused(caseId, kind)'
  <2>1. Applied(caseId, kind) \in Nat /\ Caused(caseId, kind) \in Nat
    BY LogTyped DEF SimulatorInv
  <2>2. {y \in Exchanges : /\ exchanges'[y].step = "record"
                           /\ exchanges'[y].caseId = caseId
                           /\ exchanges'[y].kind = kind} = {}
    BY <1>3 DEF Idle
  <2>3. Unrecorded(caseId, kind)' = 0
    BY <2>2, FS_EmptySet DEF Unrecorded
  <2>4. exchangeLog'[caseId][kind] = 0
    BY RuleOfKinds DEF crash
  <2>5. Caused(caseId, kind)' = Caused(caseId, kind)
    BY <1>1, CausedMoves
  <2> QED
    BY <2>1, <2>3, <2>4, <2>5 DEF Applied
<1>6. LogCovered'
  BY <1>2, <1>5 DEF LogCovered
<1> QED
  BY <1>1, <1>2, <1>4, <1>6 DEF SimulatorInv, LedgerKept

\* The exchanges sleep while somebody else works, or nobody.
LEMMA LedgerOnlyKept ==
  ASSUME SimulatorInv, LedgerKept,
         UNCHANGED <<exchanges, exchangeLog, disturbed>>,
         \/ CountsNone
         \/ \E home \in CaseIds, action \in WorkflowActions :
              /\ CountsOne(home, action)
              /\ \A kind \in ForeignKinds : RuleOf[kind].action # action
  PROVE  SimulatorInv'
<1>1. LogCovered'
  BY QuietLog, LogKept
<1>2. ExchangesTyped'
  BY DEF SimulatorInv, ExchangesTyped
<1>3. IntakesComplete'
  <2> SUFFICES ASSUME NEW y \in Exchanges PROVE IntakeComplete(exchanges[y])'
    BY DEF IntakesComplete
  <2>1. PICK exchange \in ExchangeRecord :
          exchange = exchanges[y] /\ exchange = exchanges'[y]
    BY DEF SimulatorInv, ExchangesTyped
  <2>2. IntakeComplete(exchange)
    BY <2>1 DEF SimulatorInv, IntakesComplete
  <2>3. IntakeComplete(exchange)'
    BY <2>2, IntakeKept DEF SimulatorInv
  <2> QED
    BY <2>1, <2>3 DEF IntakeComplete
<1> QED
  BY <1>1, <1>2, <1>3 DEF SimulatorInv, LedgerKept

\* Applicant and domestic authorities: the two rules of the foreign regulator
\* are not theirs.
LEMMA OfficerKept ==
  ASSUME SimulatorInv, NEW caseId \in CaseIds, NEW role \in DomesticRoles,
         NEW rule \in TRANSITIONS, role \in rule.allowedRoles,
         officerStep(caseId, rule, role)
  PROVE  SimulatorInv'
<1>1. OfficerOf(role) \in UserClaims
  BY SimulatorActors
<1>2. /\ transitionCase(caseId, rule, OfficerOf(role), {}, DOCUMENT_TYPES)
      /\ UNCHANGED <<exchanges, exchangeLog, disturbed>>
  BY DEF officerStep
<1>3. {} \in SUBSET DocumentIds
  OBVIOUS
<1>4. LedgerKept /\ CountsOne(caseId, rule.action)
  BY <1>1, <1>2, <1>3, TransitionCounted DEF SimulatorInv
<1>5. rule.action \in WorkflowActions
  BY RuleActions
<1>6. role # "foreign_regulator_officer"
  BY DEF DomesticRoles
<1>7. rule # RecordForeignReviewRule /\ rule # ApproveCaseRule
  BY <1>6 DEF RecordForeignReviewRule, ApproveCaseRule, Rule
<1>8. rule.action \notin {"record_foreign_review", "approve_case"}
  BY <1>7
  DEF TRANSITIONS, Rule, SubmitCaseRule, RecordDomesticReviewRule,
      RequestMoreInformationRule, RespondToInformationRequestRule,
      ForwardToCoordinationRule, ForwardToForeignAuthorityRule,
      RejectCaseRule, InitiateNonSubstantiveAmendmentRule,
      InitiateSubstantiveAmendmentRule, IssueAssuranceRule,
      AmendAssuranceRule, RejectAmendmentRule, RevokeAssuranceRule,
      CloseCaseRule
<1>9. \A kind \in ForeignKinds :
        RuleOf[kind].action \in {"record_foreign_review", "approve_case"}
  BY DEF ForeignKinds, RuleOf, RecordForeignReviewRule, ApproveCaseRule, Rule
<1> QED
  BY <1>2, <1>4, <1>5, <1>8, <1>9, LedgerOnlyKept

-----------------------------------------------------------------------------
(* The invariant. *)

\* It holds when nothing has arrived.
LEMMA SimulatorInvInit == SimulatorInit => SimulatorInv
<1> SUFFICES ASSUME SimulatorInit PROVE SimulatorInv
  OBVIOUS
<1>1. ChaincodeInv
  BY ChaincodeInvInit DEF SimulatorInit
<1>2. \A caseId \in CaseIds : Trail(caseId) = {} /\ ~Exists(caseId)
  BY DEF SimulatorInit, ChaincodeInit, Init, Trail, Exists
<1>3. TrailsCounted
  BY <1>2, FS_EmptySet DEF TrailsCounted
<1>4. ExchangesTyped
  BY DEF SimulatorInit, ExchangesTyped, ExchangeRecord
<1>5. \A y \in Exchanges : exchanges[y] = Idle
  BY DEF SimulatorInit
<1>6. IntakesComplete
  BY <1>5 DEF IntakesComplete, IntakeComplete, Idle
<1>7. ASSUME NEW caseId \in CaseIds, NEW kind \in DOMAIN RuleOf
      PROVE  Applied(caseId, kind) = 0 /\ Caused(caseId, kind) = 0
  <2>1. {y \in Exchanges : /\ exchanges[y].step = "record"
                           /\ exchanges[y].caseId = caseId
                           /\ exchanges[y].kind = kind} = {}
    BY <1>5 DEF Idle
  <2>2. Unrecorded(caseId, kind) = 0
    BY <2>1, FS_EmptySet DEF Unrecorded
  <2>3. exchangeLog[caseId][kind] = 0
    BY RuleOfKinds DEF SimulatorInit
  <2>4. Caused(caseId, kind) = 0
    BY <1>2, FS_EmptySet DEF Caused, Count
  <2> QED
    BY <2>2, <2>3, <2>4 DEF Applied
<1>8. LogCovered
  BY <1>7, RuleOfKinds DEF LogCovered
<1> QED
  BY <1>1, <1>3, <1>4, <1>6, <1>8 DEF SimulatorInv

\* Every step preserves it.
LEMMA SimulatorInvNext ==
  SimulatorInv /\ [SimulatorNext]_simulatorVars => SimulatorInv'
<1> SUFFICES ASSUME SimulatorInv, [SimulatorNext]_simulatorVars
             PROVE  SimulatorInv'
  OBVIOUS
<1>1. ASSUME NEW x \in Exchanges, Receive(x) PROVE SimulatorInv'
  BY <1>1, ReceiveKept
<1>2. ASSUME NEW x \in Exchanges, Proceed(x) PROVE SimulatorInv'
  BY <1>2, IntakeStepKept, RefusalKept, DecisionUploadKept, ApplyKept,
     RecordKept DEF Proceed
<1>3. ASSUME NEW x \in Exchanges, failExchange(x) PROVE SimulatorInv'
  BY <1>3, FailureKept
<1>4. CASE crash
  BY <1>4, CrashKept
<1>5. ASSUME NEW caseId \in CaseIds, NEW role \in DomesticRoles,
             NEW rule \in {t \in TRANSITIONS : role \in t.allowedRoles},
             officerStep(caseId, rule, role)
      PROVE  SimulatorInv'
  BY <1>5, OfficerKept
<1>6. CASE UNCHANGED simulatorVars
  <2>1. /\ UNCHANGED chaincodeVars
        /\ UNCHANGED <<exchanges, exchangeLog, disturbed>>
    BY <1>6 DEF simulatorVars
  <2>2. LedgerKept /\ CountsNone
    BY <2>1, UnchangedCounted DEF SimulatorInv
  <2> QED
    BY <2>1, <2>2, LedgerOnlyKept
<1> QED
  BY <1>1, <1>2, <1>3, <1>4, <1>5, <1>6 DEF SimulatorNext

\* It holds in every reachable state.
LEMMA SimulatorInvariance == SimulatorSpec => []SimulatorInv
BY SimulatorInvInit, SimulatorInvNext, PTL DEF SimulatorSpec

-----------------------------------------------------------------------------
(* The theorems. *)

\* The exchange log tells the truth: nothing is recorded as applied that did
\* not happen, and while no call has failed nothing that happened is missing
\* (recordExchange after the last call of each handler).
THEOREM ExchangeLogCorrect == SimulatorSpec => []ExchangeLogTrue
<1>1. SimulatorInv => ExchangeLogTrue
  <2> SUFFICES ASSUME SimulatorInv, NEW caseId \in CaseIds, NEW kind \in ForeignKinds
               PROVE  /\ Applied(caseId, kind) <= Caused(caseId, kind)
                      /\ ~disturbed => Applied(caseId, kind) = Caused(caseId, kind)
    BY DEF ExchangeLogTrue, Applied, Caused, ForeignKinds
  <2> QED
    BY RuleOfKinds DEF SimulatorInv, LogCovered
<1> QED
  BY <1>1, SimulatorInvariance, PTL

\* A message that arrives again is refused by the state of its case, unless
\* the workflow has come back to it (no deduplication in
\* acknowledgeForeignReceipt and applyForeignDecision).
THEOREM RepeatsAreRefused == SimulatorSpec => []RepeatsRefused
<1>1. SimulatorInv => RepeatsRefused
  <2> SUFFICES ASSUME SimulatorInv, NEW caseId \in CaseIds
               PROVE  LET log(kind) == exchangeLog[caseId][kind]
                      IN /\ log("foreign_acknowledgement")
                              <= Count(caseId, "forward_to_foreign_authority")
                         /\ log("approved") <= Count(caseId, "record_foreign_review")
                         /\ log("more_information_requested")
                              <= Count(caseId, "respond_to_information_request") + 1
                         /\ log("rejected") <= 1
    BY DEF RepeatsRefused
  <2> DEFINE n == TrailCount(caseId)
  <2>1. n \in [WorkflowActions -> Nat]
    BY CountsTyped DEF SimulatorInv, TrailsCounted
  <2>2. \A action \in WorkflowActions : n[action] = Count(caseId, action)
    BY DEF TrailCount
  <2>3. \A kind \in DOMAIN RuleOf :
          /\ exchangeLog[caseId][kind] \in Nat
          /\ exchangeLog[caseId][kind] <= n[RuleOf[kind].action]
    <3> SUFFICES ASSUME NEW kind \in DOMAIN RuleOf
                 PROVE  /\ exchangeLog[caseId][kind] \in Nat
                        /\ exchangeLog[caseId][kind] <= n[RuleOf[kind].action]
      OBVIOUS
    <3>1. /\ exchangeLog[caseId][kind] \in Nat
          /\ Unrecorded(caseId, kind) \in Nat
          /\ Caused(caseId, kind) \in Nat
          /\ Caused(caseId, kind) = n[RuleOf[kind].action]
      BY LogTyped DEF SimulatorInv
    <3>2. Applied(caseId, kind) <= Caused(caseId, kind)
      BY DEF SimulatorInv, LogCovered
    <3> HIDE DEF n
    <3> QED
      BY <3>1, <3>2 DEF Applied
  <2>4. /\ n["record_foreign_review"] <= n["forward_to_foreign_authority"]
        /\ n["approve_case"] <= n["record_foreign_review"]
        /\ n["request_more_information"]
             <= n["respond_to_information_request"] + 1
        /\ n["reject_case"] <= 1
    <3>0. /\ n["record_foreign_review"] \in Nat
          /\ n["forward_to_foreign_authority"] \in Nat
          /\ n["approve_case"] \in Nat
          /\ n["request_more_information"] \in Nat
          /\ n["respond_to_information_request"] \in Nat
          /\ n["reject_case"] \in Nat
      BY <2>1 DEF WorkflowActions
    <3>1. CASE Exists(caseId)
      <4>1. RoundsCounted(n, cases[caseId])
        BY <3>1 DEF SimulatorInv, TrailsCounted
      <4> HIDE DEF n
      <4> QED
        BY <3>0, <4>1 DEF RoundsCounted, Bit
    <3>2. CASE ~Exists(caseId)
      <4>1. Trail(caseId) = {}
        BY <3>2 DEF SimulatorInv, ChaincodeInv, IInv, TrailGapFree
      <4>2. \A action : Count(caseId, action) = 0
        BY <4>1, FS_EmptySet DEF Count
      <4>3. \A action \in WorkflowActions : n[action] = 0
        BY <2>2, <4>2
      <4> HIDE DEF n
      <4> QED
        BY <3>0, <4>3 DEF WorkflowActions
    <3> QED
      BY <3>1, <3>2
  <2>5. /\ RuleOf["foreign_acknowledgement"].action = "record_foreign_review"
        /\ RuleOf["approved"].action = "approve_case"
        /\ RuleOf["more_information_requested"].action = "request_more_information"
        /\ RuleOf["rejected"].action = "reject_case"
        /\ {"foreign_acknowledgement", "approved", "more_information_requested",
            "rejected"} \subseteq DOMAIN RuleOf
    BY DEF RuleOf, RecordForeignReviewRule, ApproveCaseRule, RejectCaseRule,
           RequestMoreInformationRule, Rule
  <2>6. n["record_foreign_review"] \in Nat /\ n["approve_case"] \in Nat
        /\ n["request_more_information"] \in Nat /\ n["reject_case"] \in Nat
        /\ n["forward_to_foreign_authority"] = Count(caseId, "forward_to_foreign_authority")
        /\ n["record_foreign_review"] = Count(caseId, "record_foreign_review")
        /\ n["respond_to_information_request"] = Count(caseId, "respond_to_information_request")
        /\ n["forward_to_foreign_authority"] \in Nat
        /\ n["respond_to_information_request"] \in Nat
    BY <2>1, <2>2 DEF WorkflowActions
  <2> HIDE DEF n
  <2> QED
    BY <2>3, <2>4, <2>5, <2>6
<1> QED
  BY <1>1, SimulatorInvariance, PTL

\* A validated intake is not refused half-way: with its documents uploaded the
\* chaincode accepts its submission, unless the draft is submitted already
\* (assertDomesticIntakeMessage before submitDomesticIntake).
THEOREM IntakesAccepted == SimulatorSpec => []IntakeSubmittable
<1>1. SimulatorInv => IntakeSubmittable
  <2> SUFFICES ASSUME SimulatorInv, NEW x \in Exchanges,
                      exchanges[x].step = "uploadManifest",
                      exchanges[x].autoSubmit,
                      exchanges[x].pending = {},
                      ~(Count(exchanges[x].caseId, "submit_case") > 0)
               PROVE  ~Refused(exchanges[x].caseId, SubmitCaseRule, ApplicantActor,
                         {documents[d].documentType : d \in exchanges[x].uploaded})
    BY DEF IntakeSubmittable
  <2>1. PICK exchange \in Intake : exchange = exchanges[x]
    BY ExchangeSteps DEF SimulatorInv, ExchangesTyped
  <2>2. PICK types : types = {documents[d].documentType : d \in exchange.uploaded}
    OBVIOUS
  <2>3. exchange.caseId \in CaseIds
    BY DEF Intake
  <2>4. IntakeComplete(exchange)
    BY <2>1 DEF SimulatorInv, IntakesComplete
  <2>5. Exists(exchange.caseId) /\ REQUIRED_INTAKE_DOCUMENTS \subseteq types
    BY <2>1, <2>2, <2>4 DEF IntakeComplete
  <2>6. TrailCount(exchange.caseId)["submit_case"] = 0
    <3>1. TrailCount(exchange.caseId) \in [WorkflowActions -> Nat]
      BY <2>3, CountsTyped DEF SimulatorInv, TrailsCounted
    <3>2. /\ TrailCount(exchange.caseId)["submit_case"] \in Nat
          /\ TrailCount(exchange.caseId)["submit_case"]
               = Count(exchange.caseId, "submit_case")
      BY <3>1 DEF TrailCount, WorkflowActions
    <3> QED
      BY <2>1, <3>2
  <2>7. cases[exchange.caseId].currentState = "draft"
    BY <2>3, <2>5, <2>6 DEF SimulatorInv, TrailsCounted, RoundsCounted
  <2>8. ActorAllowed(SubmitCaseRule, ApplicantActor)
    BY DEF ActorAllowed, ActorInGoodStanding, SubmitCaseRule, Rule,
           ApplicantActor, OfficerOf, OrganizationOf, AllowedActions,
           ApplicantRoles, ApplicantOrgs
  <2>9. evaluateTransition(cases[exchange.caseId], SubmitCaseRule,
                           ApplicantActor, types, TRUE)
    <3>1. /\ SubmitCaseRule.action = "submit_case"
          /\ SubmitCaseRule.from = {"draft"}
          /\ SubmitCaseRule.requiredDocumentTypes = REQUIRED_INTAKE_DOCUMENTS
      BY DEF SubmitCaseRule, Rule, REQUIRED_INTAKE_DOCUMENTS
    <3>2. RecordAllows(cases[exchange.caseId], "submit_case")
      BY DEF RecordAllows, AmendmentInitiations
    <3> QED
      BY <2>5, <2>7, <2>8, <3>1, <3>2 DEF evaluateTransition
  <2> QED
    BY <2>1, <2>2, <2>5, <2>9 DEF Refused
<1> QED
  BY <1>1, SimulatorInvariance, PTL

\* Whatever messages arrive, fail or are lost half-way, the ledger behind the
\* simulator keeps what is proved of the chaincode.
THEOREM LedgerBehindSimulator ==
  SimulatorSpec => [](/\ StateIndexExact /\ TrailGapFree /\ TrailReplays
                      /\ InformationRequestResumable /\ ApprovalIsEndorsed
                      /\ CaseDocumentsExact /\ ActiveDocumentsListed)
<1>1. SimulatorInv =>
        /\ StateIndexExact /\ TrailGapFree /\ TrailReplays
        /\ InformationRequestResumable /\ ApprovalIsEndorsed
        /\ CaseDocumentsExact /\ ActiveDocumentsListed
  BY DEF SimulatorInv, ChaincodeInv, IInv, RecordInv,
         InformationRequestResumable, ApprovalIsEndorsed
<1> QED
  BY <1>1, SimulatorInvariance, PTL

-----------------------------------------------------------------------------
(* The simulator as a client of the ledger. *)

\* A transition it asks for is a transaction (transitionCase).
LEMMA TransitionIsTransaction ==
  ASSUME NEW caseId \in CaseIds, NEW rule \in TRANSITIONS,
         NEW actor \in UserClaims, NEW ids \in SUBSET DocumentIds, NEW types,
         transitionCase(caseId, rule, actor, ids, types)
  PROVE  LedgerStep
<1>1. /\ performTransition(caseId, rule, actor, types, ids, TRUE)
      /\ UNCHANGED <<documents, caseDocuments>>
  BY DEF transitionCase
<1> QED
  BY <1>1 DEF CaseStep, LedgerStep

\* So is an intake's draft, each upload, its submission and each message that
\* is applied; whatever else an exchange does leaves the ledger alone.
LEMMA ExchangeLedgerSteps ==
  ASSUME SimulatorInv, NEW x \in Exchanges, Proceed(x)
  PROVE  LedgerStep \/ UNCHANGED chaincodeVars
<1>1. exchanges[x] \in ExchangeRecord
  BY DEF SimulatorInv, ExchangesTyped
<1>2. ASSUME NEW documentId \in DocumentIds, NEW caseId \in CaseIds,
             NEW documentType, NEW actor,
             uploadDocument(documentId, caseId, documentType, actor)
      PROVE  LedgerStep
  BY <1>2, UploadAnchors DEF SimulatorInv, LedgerStep
<1>3. CASE intakeDraft(x)
  <2>1. PICK exchange \in Intake : exchange = exchanges[x]
    BY <1>1, <1>3, ExchangeSteps DEF intakeDraft
  <2>2. exchange.caseId \in CaseIds
    BY DEF Intake
  <2>3. createCase(exchange.caseId, ApplicantActor)
    BY <1>3, <2>1 DEF intakeDraft
  <2>4. CaseStep
    BY <2>2, <2>3, SimulatorActors DEF CaseStep
  <2> QED
    BY <1>3, <2>4 DEF intakeDraft, LedgerStep
<1>4. ASSUME NEW documentId \in DocumentIds, intakeUpload(x, documentId)
      PROVE  LedgerStep
  <2>1. PICK exchange \in Intake : exchange = exchanges[x]
    BY <1>1, <1>4, ExchangeSteps DEF intakeUpload
  <2>2. exchange.caseId \in CaseIds
    BY DEF Intake
  <2>3. \E documentType :
          uploadDocument(documentId, exchange.caseId, documentType, ApplicantActor)
    BY <1>4, <2>1 DEF intakeUpload
  <2> QED
    BY <1>2, <2>2, <2>3
<1>5. ASSUME NEW documentId \in DocumentIds, uploadDecision(x, documentId)
      PROVE  LedgerStep
  <2>1. PICK exchange \in Announced : exchange = exchanges[x]
    BY <1>1, <1>5, ExchangeSteps DEF uploadDecision
  <2>2. exchange.caseId \in CaseIds
    BY DEF Announced
  <2>3. \E documentType :
          uploadDocument(documentId, exchange.caseId, documentType, FOREIGN_ACTOR)
    BY <1>5, <2>1 DEF uploadDecision
  <2> QED
    BY <1>2, <2>2, <2>3
<1>6. CASE intakeSubmit(x)
  <2>1. PICK exchange \in Intake : exchange = exchanges[x]
    BY <1>1, <1>6, ExchangeSteps DEF intakeSubmit
  <2>2. exchange.caseId \in CaseIds /\ exchange.uploaded \in SUBSET DocumentIds
    BY DEF Intake
  <2>3. \E types : transitionCase(exchange.caseId, SubmitCaseRule,
                                  ApplicantActor, exchange.uploaded, types)
    BY <1>6, <2>1 DEF intakeSubmit
  <2>4. SubmitCaseRule \in TRANSITIONS
    BY DEF TRANSITIONS
  <2> QED
    BY <2>2, <2>3, <2>4, SimulatorActors, TransitionIsTransaction
<1>7. CASE applyMessage(x)
  <2>1. PICK exchange \in Message : exchange = exchanges[x]
    BY <1>1, <1>7, ExchangeSteps DEF applyMessage
  <2>2. /\ exchange.caseId \in CaseIds
        /\ exchange.kind \in DOMAIN RuleOf
        /\ exchange.evidence \in SUBSET DocumentIds
    BY DEF Message
  <2>3. PICK rule \in TRANSITIONS : rule = RuleOf[exchange.kind]
    BY <2>2, RuleOfKinds
  <2>4. \E types : transitionCase(exchange.caseId, rule, FOREIGN_ACTOR,
                                  exchange.evidence, types)
    BY <1>7, <2>1, <2>3 DEF applyMessage
  <2> QED
    BY <2>2, <2>4, SimulatorActors, TransitionIsTransaction
<1>8. CASE \/ intakeKeepDraft(x) \/ intakeRefused(x) \/ uploadUnknownCase(x)
           \/ messageRefused(x) \/ recordApplied(x)
  BY <1>8 DEF intakeKeepDraft, intakeRefused, uploadUnknownCase,
     messageRefused, recordApplied
<1> QED
  BY <1>3, <1>4, <1>5, <1>6, <1>7, <1>8 DEF Proceed

\* Every step is a transaction or leaves the ledger alone.
LEMMA SimulatorLedgerSteps ==
  ASSUME SimulatorInv, SimulatorNext
  PROVE  LedgerStep \/ UNCHANGED chaincodeVars
<1>1. ASSUME NEW x \in Exchanges, Receive(x) \/ failExchange(x)
      PROVE  UNCHANGED chaincodeVars
  BY <1>1 DEF Receive, receiveIntake, receiveAcknowledgement, receiveDecision,
     failExchange
<1>2. CASE crash
  BY <1>2 DEF crash
<1>3. ASSUME NEW caseId \in CaseIds, NEW role \in DomesticRoles,
             NEW rule \in {t \in TRANSITIONS : role \in t.allowedRoles},
             officerStep(caseId, rule, role)
      PROVE  LedgerStep
  BY <1>3, SimulatorActors, TransitionIsTransaction DEF officerStep
<1> QED
  BY <1>1, <1>2, <1>3, ExchangeLedgerSteps DEF SimulatorNext

\* To the ledger the simulator, with the officers beside it, is a client like
\* any other.
THEOREM SimulatorIsClient == SimulatorSpec => LedgerSpec
<1>1. SimulatorInit => ChaincodeInit
  BY DEF SimulatorInit
<1>2. SimulatorInv /\ [SimulatorNext]_simulatorVars => [LedgerStep]_chaincodeVars
  BY SimulatorLedgerSteps DEF simulatorVars
<1> QED
  BY <1>1, <1>2, SimulatorInvariance, PTL DEF SimulatorSpec, LedgerSpec

\* Messages of emulated authorities, repeated, lost half-way or overtaken, never
\* make an assurance of less than a review of its own.
THEOREM SimulatorInstrumentsReviewed ==
  SimulatorSpec => [](VersionCountsInstruments /\ EveryInstrumentReviewed)
BY SimulatorIsClient, LedgerHistoryCorrect, PTL

\* They take no case out of the lifecycle either.
THEOREM SimulatorImplementsLifecycle == SimulatorSpec => LifecycleSpec
BY SimulatorIsClient, LedgerImplementsLifecycle, PTL

=============================================================================
