-------------------------- MODULE SimulatedProofs ---------------------------
(***************************************************************************)
(* The default configuration, for every set of cases, documents, actors    *)
(* and uploads in flight: an upload may put back an old record, but a      *)
(* record the workflow made, with a place in the trail.                    *)
(***************************************************************************)
EXTENDS Simulated, CaseRecordProofs

EventRecord ==
  [caseId : CaseIds, sequence : Nat, actionType : WorkflowActions,
   previousState : WorkflowStates \cup {Undefined}, newState : WorkflowStates]

\* Some event of the case's trail ended in this record.
Recorded(caseId, c) ==
  \E i \in 1 .. Len(trails[caseId]) :
    /\ trails[caseId][i].sequence = c.auditSequenceNumber
    /\ trails[caseId][i].newState = c.currentState

\* A record the workflow made, of a case in whose trail it has a place.
Genuine(caseId, c) ==
  /\ c \in AssuranceCase
  /\ RecordInv(c)
  /\ Recorded(caseId, c)

\* Each event but the first continues an earlier one.
Branches(trail) ==
  \A i \in 2 .. Len(trail) : \E j \in 1 .. i - 1 :
    /\ trail[j].sequence = trail[i].sequence - 1
    /\ trail[j].newState = trail[i].previousState

\* What the maps hold of one case.
Sound(caseId) ==
  /\ Branches(trails[caseId])
  /\ cases[caseId] = NoCase => trails[caseId] = <<>>
  /\ cases[caseId] # NoCase => Genuine(caseId, cases[caseId])

\* The inductive invariant: what is stored is genuine, and so is what an
\* upload in flight remembers and will put back.
SimulatedInv ==
  /\ cases \in [CaseIds -> AssuranceCase \cup {NoCase}]
  /\ trails \in [CaseIds -> Seq(EventRecord)]
  /\ DOMAIN uploads = Uploads
  /\ \A caseId \in CaseIds : Sound(caseId)
  /\ \A r \in Uploads : uploads[r] # Idle =>
       /\ uploads[r].caseId \in CaseIds
       /\ uploads[r].documentId \in DocumentIds
       /\ cases[uploads[r].caseId] # NoCase
       /\ Genuine(uploads[r].caseId, uploads[r].currentCase)

-----------------------------------------------------------------------------
(* The trail.                                                              *)

\* What a trail keeps and gains when an event is appended.
LEMMA Appended ==
  ASSUME NEW trail \in Seq(EventRecord), NEW e \in EventRecord
  PROVE  /\ Append(trail, e) \in Seq(EventRecord)
         /\ Len(trail) \in Nat
         /\ Len(Append(trail, e)) = Len(trail) + 1
         /\ \A i \in 1 .. Len(trail) : Append(trail, e)[i] = trail[i]
         /\ Append(trail, e)[Len(trail) + 1] = e
OBVIOUS

\* Appending an event that continues an earlier one, or the first of all,
\* keeps the trail a tree.
LEMMA BranchesAppended ==
  ASSUME NEW trail \in Seq(EventRecord), NEW e \in EventRecord,
         Branches(trail),
         \/ trail = <<>>
         \/ \E j \in 1 .. Len(trail) :
              /\ trail[j].sequence = e.sequence - 1
              /\ trail[j].newState = e.previousState
  PROVE  Branches(Append(trail, e))
<1> DEFINE t == Append(trail, e)
<1> SUFFICES ASSUME NEW i \in 2 .. Len(t)
             PROVE  \E j \in 1 .. i - 1 :
                      /\ t[j].sequence = t[i].sequence - 1
                      /\ t[j].newState = t[i].previousState
  BY DEF Branches
<1>1. /\ Len(trail) \in Nat
      /\ Len(t) = Len(trail) + 1
      /\ \A k \in 1 .. Len(trail) : t[k] = trail[k]
      /\ t[Len(trail) + 1] = e
  BY Appended
<1> HIDE DEF t
<1>2. CASE i = Len(trail) + 1
  <2>1. trail # <<>>
    BY <1>2, <1>1
  <2>2. PICK j \in 1 .. Len(trail) : /\ trail[j].sequence = e.sequence - 1
                                     /\ trail[j].newState = e.previousState
    BY <2>1
  <2> QED
    BY <1>1, <1>2, <2>2
<1>3. CASE i # Len(trail) + 1
  <2>1. i \in 2 .. Len(trail)
    BY <1>1, <1>3
  <2>2. PICK j \in 1 .. i - 1 : /\ trail[j].sequence = trail[i].sequence - 1
                                /\ trail[j].newState = trail[i].previousState
    BY <2>1 DEF Branches
  <2>3. i \in 1 .. Len(trail) /\ j \in 1 .. Len(trail)
    BY <1>1, <2>1
  <2> QED
    BY <1>1, <2>2, <2>3
<1> QED
  BY <1>2, <1>3

-----------------------------------------------------------------------------
(* Steps.                                                                  *)

\* Persisting a record with the event that led to it preserves the invariant.
LEMMA PersistPreserves ==
  ASSUME SimulatedInv, NEW caseId \in CaseIds, NEW d, RecordInv(d),
         NEW e \in EventRecord, persistCaseUpdate(caseId, d, e),
         UNCHANGED uploads,
         e.sequence = d.auditSequenceNumber, e.newState = d.currentState,
         \/ cases[caseId] = NoCase
         \/ /\ cases[caseId] # NoCase
            /\ e.sequence = cases[caseId].auditSequenceNumber + 1
            /\ e.previousState = cases[caseId].currentState
  PROVE  SimulatedInv'
<1>1. d \in AssuranceCase /\ d # NoCase
  BY SimulatedAssumption DEF RecordInv
<1>2. /\ cases' = [cases EXCEPT ![caseId] = d]
      /\ trails' = [trails EXCEPT ![caseId] = Append(trails[caseId], e)]
      /\ cases \in [CaseIds -> AssuranceCase \cup {NoCase}]
      /\ trails \in [CaseIds -> Seq(EventRecord)]
  BY DEF persistCaseUpdate, SimulatedInv
<1>3. /\ trails[caseId] \in Seq(EventRecord)
      /\ trails'[caseId] \in Seq(EventRecord)
      /\ Len(trails[caseId]) \in Nat
      /\ Len(trails'[caseId]) = Len(trails[caseId]) + 1
      /\ \A i \in 1 .. Len(trails[caseId]) : trails'[caseId][i] = trails[caseId][i]
      /\ trails'[caseId][Len(trails[caseId]) + 1] = e
  <2>1. trails'[caseId] = Append(trails[caseId], e)
    BY <1>2
  <2> QED
    BY <1>2, <2>1, Appended
<1>4. /\ cases' \in [CaseIds -> AssuranceCase \cup {NoCase}]
      /\ trails' \in [CaseIds -> Seq(EventRecord)]
      /\ cases'[caseId] = d
      /\ \A k \in CaseIds \ {caseId} :
           cases'[k] = cases[k] /\ trails'[k] = trails[k]
  BY <1>1, <1>2, <1>3
<1>5. \A k \in CaseIds : \A c : Genuine(k, c) => Genuine(k, c)'
  <2> SUFFICES ASSUME NEW k \in CaseIds, NEW c, Recorded(k, c)
               PROVE  Recorded(k, c)'
    BY DEF Genuine
  <2>1. CASE k = caseId
    <3>1. PICK i \in 1 .. Len(trails[k]) :
            /\ trails[k][i].sequence = c.auditSequenceNumber
            /\ trails[k][i].newState = c.currentState
      BY DEF Recorded
    <3>2. i \in 1 .. Len(trails'[k]) /\ trails'[k][i] = trails[k][i]
      BY <1>3, <2>1
    <3> QED
      BY <3>1, <3>2 DEF Recorded
  <2>2. CASE k # caseId
    BY <1>4, <2>2 DEF Recorded
  <2> QED
    BY <2>1, <2>2
<1>6. Genuine(caseId, d)'
  <2>1. Len(trails[caseId]) + 1 \in 1 .. Len(trails'[caseId])
    BY <1>3
  <2>2. Recorded(caseId, d)'
    BY <1>3, <2>1 DEF Recorded
  <2> QED
    BY <1>1, <2>2 DEF Genuine
<1>7. Branches(trails'[caseId])
  <2>1. trails'[caseId] = Append(trails[caseId], e)
    BY <1>2
  <2>2. \/ trails[caseId] = <<>>
        \/ \E j \in 1 .. Len(trails[caseId]) :
             /\ trails[caseId][j].sequence = e.sequence - 1
             /\ trails[caseId][j].newState = e.previousState
    <3>1. CASE cases[caseId] = NoCase
      BY <3>1 DEF SimulatedInv, Sound
    <3>2. CASE cases[caseId] # NoCase
      <4>1. Genuine(caseId, cases[caseId])
        BY <3>2 DEF SimulatedInv, Sound
      <4>2. cases[caseId].auditSequenceNumber \in Nat
        BY <4>1 DEF Genuine, AssuranceCase
      <4> QED
        BY <3>2, <4>1, <4>2 DEF Genuine, Recorded
    <3> QED
      BY <3>1, <3>2
  <2> QED
    BY <1>3, <2>1, <2>2, BranchesAppended DEF SimulatedInv, Sound
<1>8. \A k \in CaseIds : Sound(k)'
  <2> SUFFICES ASSUME NEW k \in CaseIds PROVE Sound(k)'
    OBVIOUS
  <2>1. CASE k = caseId
    BY <1>1, <1>4, <1>6, <1>7, <2>1 DEF Sound
  <2>2. CASE k # caseId
    <3>1. Sound(k) /\ cases'[k] = cases[k] /\ trails'[k] = trails[k]
      BY <1>4, <2>2 DEF SimulatedInv
    <3>2. cases[k] # NoCase => Genuine(k, cases[k])'
      BY <1>5, <3>1 DEF Sound
    <3> QED
      BY <3>1, <3>2 DEF Sound, Genuine, Recorded
  <2> QED
    BY <2>1, <2>2
<1>9. \A r \in Uploads : uploads[r] # Idle => cases'[uploads[r].caseId] # NoCase
  BY <1>1, <1>4 DEF SimulatedInv
<1> QED
  BY <1>4, <1>5, <1>8, <1>9 DEF SimulatedInv

\* A draft.
LEMMA DraftStep ==
  ASSUME SimulatedInv, NEW caseId \in CaseIds, NEW actor,
         createDraft(caseId, actor)
  PROVE  SimulatedInv'
<1> DEFINE e == Event(caseId, "create_case", Undefined, DraftCase)
<1>1. e \in EventRecord
  BY DEF Event, EventRecord, DraftCase, WorkflowStates, WorkflowActions
<1>2. /\ e.sequence = DraftCase.auditSequenceNumber
      /\ e.newState = DraftCase.currentState
  BY DEF Event
<1>3. /\ cases[caseId] = NoCase
      /\ persistCaseUpdate(caseId, DraftCase, e)
      /\ UNCHANGED uploads
  BY DEF createDraft, Ledger!Exists
<1> HIDE DEF e
<1> QED
  BY <1>1, <1>2, <1>3, DraftPreserves, PersistPreserves

\* A transition by a rule of the table.
LEMMA TransitionStep ==
  ASSUME SimulatedInv, NEW caseId \in CaseIds, NEW rule \in MatchingRules(caseId),
         NEW actor \in Actors, NEW ids \in SUBSET DocumentIds, NEW types,
         NEW justified \in BOOLEAN,
         relayTransition(caseId, rule, actor, types, ids, justified)
  PROVE  SimulatedInv'
<1> DEFINE c == cases[caseId]
           d == applyTransition(c, rule, actor, ids)
           e == Event(caseId, rule.action, c.currentState, d)
<1>1. rule \in TRANSITIONS /\ c # NoCase
  BY DEF MatchingRules, Ledger!Exists
<1>2. c \in AssuranceCase /\ RecordInv(c)
  BY <1>1 DEF SimulatedInv, Sound, Genuine
<1>3. RecordInv(d) /\ d \in AssuranceCase
  BY <1>1, <1>2, SimulatedAssumption, TransitionPreserves
  DEF relayTransition, RecordInv
<1>4. d.auditSequenceNumber = c.auditSequenceNumber + 1
  BY DEF applyTransition
<1>5. e \in EventRecord
  <2>1. /\ c.currentState \in WorkflowStates
        /\ d.currentState \in WorkflowStates
        /\ d.auditSequenceNumber \in Nat
    BY <1>2, <1>3 DEF AssuranceCase
  <2>2. rule.action \in WorkflowActions
    BY <1>1, RuleActions
  <2> HIDE DEF c, d
  <2> QED
    BY <2>1, <2>2 DEF Event, EventRecord
<1>6. /\ e.sequence = d.auditSequenceNumber
      /\ e.newState = d.currentState
      /\ e.previousState = c.currentState
  BY DEF Event
<1>7. persistCaseUpdate(caseId, d, e) /\ UNCHANGED uploads
  BY DEF relayTransition
<1> HIDE DEF d, e
<1> QED
  BY <1>1, <1>3, <1>4, <1>5, <1>6, <1>7, PersistPreserves

\* An upload remembers the case as it is.
LEMMA ReadStep ==
  ASSUME SimulatedInv, NEW r \in Uploads, NEW caseId \in CaseIds,
         NEW documentId \in DocumentIds, NEW superseded,
         readForUpload(r, caseId, documentId, superseded)
  PROVE  SimulatedInv'
<1>1. /\ UNCHANGED <<cases, trails>>
      /\ cases[caseId] # NoCase
      /\ DOMAIN uploads' = Uploads
      /\ \A q \in Uploads \ {r} : uploads'[q] = uploads[q]
      /\ uploads'[r].caseId = caseId
      /\ uploads'[r].documentId = documentId
      /\ uploads'[r].currentCase = cases[caseId]
  BY DEF readForUpload, SimulatedInv, Ledger!Exists
<1>2. Genuine(caseId, cases[caseId])
  BY <1>1 DEF SimulatedInv, Sound
<1>3. ASSUME NEW q \in Uploads, uploads'[q] # Idle
      PROVE  /\ uploads'[q].caseId \in CaseIds
             /\ uploads'[q].documentId \in DocumentIds
             /\ cases[uploads'[q].caseId] # NoCase
             /\ Genuine(uploads'[q].caseId, uploads'[q].currentCase)
  BY <1>1, <1>2, <1>3 DEF SimulatedInv
<1> QED
  BY <1>1, <1>3 DEF SimulatedInv, Sound, Genuine, Recorded

\* The record that an upload puts back is as genuine as the one it read.
LEMMA PutBack ==
  ASSUME SimulatedInv, NEW r \in Uploads, uploads[r] # Idle
  PROVE  /\ updatedCase(uploads[r]) \in AssuranceCase
         /\ Genuine(uploads[r].caseId, updatedCase(uploads[r]))
         /\ \E ids \in SUBSET DocumentIds :
              updatedCase(uploads[r])
                = [uploads[r].currentCase EXCEPT !.activeDocumentIds = ids]
<1> DEFINE c == uploads[r].currentCase
           ids == (c.activeDocumentIds \ {uploads[r].superseded})
                    \cup {uploads[r].documentId}
           d == [c EXCEPT !.activeDocumentIds = ids]
<1>1. /\ Genuine(uploads[r].caseId, c)
      /\ uploads[r].documentId \in DocumentIds
  BY DEF SimulatedInv
<1>2. c \in AssuranceCase /\ RecordInv(c) /\ ids \in SUBSET DocumentIds
  BY <1>1 DEF Genuine, AssuranceCase
<1>3. updatedCase(uploads[r]) = d
  BY <1>2 DEF updatedCase
<1> HIDE DEF c, ids
<1>4. RecordInv(d)
  BY <1>2, RelistedRecord
<1>5. /\ d \in AssuranceCase
      /\ d.currentState = c.currentState
      /\ d.auditSequenceNumber = c.auditSequenceNumber
  BY <1>2 DEF AssuranceCase
<1> HIDE DEF d
<1>6. Genuine(uploads[r].caseId, d)
  BY <1>1, <1>4, <1>5 DEF Genuine, Recorded
<1> QED
  BY <1>2, <1>3, <1>5, <1>6 DEF d, c

\* An upload that ends.
LEMMA UploadStep ==
  ASSUME SimulatedInv, NEW r \in Uploads, uploads[r] # Idle,
         uploads' = [uploads EXCEPT ![r] = Idle], UNCHANGED trails,
         \/ UNCHANGED cases
         \/ cases' = [cases EXCEPT ![uploads[r].caseId] = updatedCase(uploads[r])]
  PROVE  SimulatedInv'
<1> DEFINE home == uploads[r].caseId
           d == updatedCase(uploads[r])
<1>1. /\ home \in CaseIds
      /\ cases[home] # NoCase
      /\ cases \in [CaseIds -> AssuranceCase \cup {NoCase}]
  BY DEF SimulatedInv
<1>2. d \in AssuranceCase /\ d # NoCase /\ Genuine(home, d)
  BY PutBack, SimulatedAssumption
<1> HIDE DEF d, home
<1>3. /\ cases' \in [CaseIds -> AssuranceCase \cup {NoCase}]
      /\ \A k \in CaseIds :
           \/ cases'[k] = cases[k]
           \/ k = home /\ cases'[k] = d
  BY <1>1, <1>2 DEF d, home
<1>4. ASSUME NEW k \in CaseIds PROVE Sound(k)'
  <2>1. Sound(k) /\ trails' = trails
    BY DEF SimulatedInv
  <2>2. CASE cases'[k] = cases[k]
    BY <2>1, <2>2 DEF Sound, Genuine, Recorded
  <2>3. CASE k = home /\ cases'[k] = d
    <3>1. Branches(trails'[k])
      BY <2>1 DEF Sound
    <3>2. Recorded(k, cases[k])'
      BY <1>2, <2>1, <2>3 DEF Genuine, Recorded
    <3>3. RecordInv(cases'[k]) /\ cases'[k] \in AssuranceCase
      BY <1>2, <2>3 DEF Genuine
    <3> QED
      BY <1>2, <2>3, <3>1, <3>2, <3>3 DEF Sound, Genuine
  <2> QED
    BY <1>3, <2>2, <2>3
<1>5. \A k \in CaseIds : cases[k] # NoCase => cases'[k] # NoCase
  BY <1>2, <1>3
<1>6. /\ DOMAIN uploads' = Uploads
      /\ uploads'[r] = Idle
      /\ \A q \in Uploads \ {r} : uploads'[q] = uploads[q]
  BY DEF SimulatedInv
<1> QED
  BY <1>3, <1>4, <1>5, <1>6 DEF SimulatedInv, Genuine, Recorded

-----------------------------------------------------------------------------
(* The invariant.                                                          *)

\* It holds of the empty maps.
LEMMA SimulatedInvInit == SimulatedInit => SimulatedInv
<1> SUFFICES ASSUME SimulatedInit PROVE SimulatedInv
  OBVIOUS
<1>1. /\ cases \in [CaseIds -> AssuranceCase \cup {NoCase}]
      /\ trails \in [CaseIds -> Seq(EventRecord)]
      /\ DOMAIN uploads = Uploads
      /\ \A r \in Uploads : uploads[r] = Idle
  BY DEF SimulatedInit
<1>2. Branches(<<>>)
  BY DEF Branches
<1> QED
  BY <1>1, <1>2 DEF SimulatedInit, SimulatedInv, Sound

\* Every request preserves it.
LEMMA SimulatedInvNext ==
  SimulatedInv /\ [SimulatedNext]_simulatedVars => SimulatedInv'
<1> SUFFICES ASSUME SimulatedInv, [SimulatedNext]_simulatedVars
             PROVE  SimulatedInv'
  OBVIOUS
<1>1. ASSUME NEW caseId \in CaseIds, NEW actor \in Actors,
             CaseRequest(caseId, actor)
      PROVE  SimulatedInv'
  BY <1>1, DraftStep, TransitionStep DEF CaseRequest, transitionCase
<1>2. ASSUME NEW r \in Uploads, UploadRequest(r)
      PROVE  SimulatedInv'
  <2>1. ASSUME NEW documentType, NEW sha256Hash, NEW actor,
               uploadDocument(r, documentType, sha256Hash, actor)
        PROVE  SimulatedInv'
    BY <2>1, UploadStep DEF uploadDocument
  <2>2. ASSUME refuseUpload(r) PROVE SimulatedInv'
    BY <2>2, UploadStep DEF refuseUpload
  <2> QED
    BY <1>2, <2>1, <2>2, ReadStep DEF UploadRequest
<1>3. CASE UNCHANGED simulatedVars
  BY <1>3 DEF simulatedVars, SimulatedInv, Sound, Genuine, Recorded
<1> QED
  BY <1>1, <1>2, <1>3 DEF SimulatedNext

\* It holds in every reachable state.
LEMMA SimulatedInvariance == SimulatedSpec => []SimulatedInv
BY SimulatedInvInit, SimulatedInvNext, PTL DEF SimulatedSpec

-----------------------------------------------------------------------------
(* The theorems.                                                           *)

\* A record put back by a late upload is one the workflow can reach
\* (documents.service.ts: persistDocumentUpdate with the case read before the
\* file was written).
THEOREM StoredRecordsCorrect == SimulatedSpec => []StoredRecordsLegal
<1>1. SimulatedInv => StoredRecordsLegal
  BY DEF SimulatedInv, Sound, Genuine, RecordInv, StoredRecordsLegal,
     Ledger!Exists
<1> QED
  BY <1>1, SimulatedInvariance, PTL

\* The trail may fork but every event, and the record, continues an earlier one.
THEOREM TrailTreeCorrect == SimulatedSpec => []TrailIsTree
<1>1. SimulatedInv => TrailIsTree
  BY DEF SimulatedInv, Sound, Genuine, Recorded, Branches, TrailIsTree,
     Ledger!Exists
<1> QED
  BY <1>1, SimulatedInvariance, PTL

\* With every known document and a justification, a caller loses nothing.
LEMMA BestCall ==
  ASSUME NEW c, NEW rule \in TRANSITIONS, NEW actor, NEW types,
         NEW justified \in BOOLEAN,
         evaluateTransition(c, rule, actor, types, justified)
  PROVE  evaluateTransition(c, rule, actor, DOCUMENT_TYPES, TRUE)
<1>1. rule.requiredDocumentTypes \subseteq DOCUMENT_TYPES
  BY DEF TRANSITIONS, Rule, DOCUMENT_TYPES, SubmitCaseRule,
     RecordDomesticReviewRule, RequestMoreInformationRule,
     RespondToInformationRequestRule, ForwardToCoordinationRule,
     ForwardToForeignAuthorityRule, RecordForeignReviewRule, ApproveCaseRule,
     RejectCaseRule, InitiateNonSubstantiveAmendmentRule,
     InitiateSubstantiveAmendmentRule, IssueAssuranceRule, AmendAssuranceRule,
     RejectAmendmentRule, RevokeAssuranceRule, CloseCaseRule
<1> QED
  BY <1>1 DEF evaluateTransition

\* A transition is lawful.
LEMMA TransitionLawful ==
  ASSUME SimulatedInv, NEW caseId \in CaseIds, NEW rule \in MatchingRules(caseId),
         NEW actor \in Actors, NEW ids \in SUBSET DocumentIds, NEW types,
         NEW justified \in BOOLEAN,
         relayTransition(caseId, rule, actor, types, ids, justified)
  PROVE  /\ LawfulChange(caseId)
         /\ \A k \in CaseIds \ {caseId} : cases'[k] = cases[k]
<1> DEFINE c == cases[caseId]
           d == applyTransition(c, rule, actor, ids)
           plain == applyTransition(c, rule, actor, {})
<1>1. /\ rule \in TRANSITIONS /\ c # NoCase
      /\ evaluateTransition(c, rule, actor, types, justified)
      /\ cases' = [cases EXCEPT ![caseId] = d]
      /\ cases \in [CaseIds -> AssuranceCase \cup {NoCase}]
  BY DEF MatchingRules, Ledger!Exists, relayTransition, persistCaseUpdate,
     SimulatedInv
<1>2. RecordInv(c)
  BY <1>1 DEF SimulatedInv, Sound, Genuine
<1>3. d \in AssuranceCase /\ plain \in AssuranceCase
  BY <1>1, <1>2, SimulatedAssumption, TypedPreserved
<1>4. d = [plain EXCEPT !.activeDocumentIds = d.activeDocumentIds]
  <2>1. /\ d.currentState = plain.currentState
        /\ d.currentSubstate = plain.currentSubstate
        /\ d.domesticRegulatorStatus = plain.domesticRegulatorStatus
        /\ d.coordinationStatus = plain.coordinationStatus
        /\ d.foreignRegulatorStatus = plain.foreignRegulatorStatus
        /\ d.issuanceStatus = plain.issuanceStatus
        /\ d.currentAssuranceVersion = plain.currentAssuranceVersion
        /\ d.pendingAmendmentReviewMode = plain.pendingAmendmentReviewMode
        /\ d.amendmentBaseState = plain.amendmentBaseState
        /\ d.auditSequenceNumber = plain.auditSequenceNumber
    BY DEF applyTransition
  <2>2. /\ d.amendmentFlag = plain.amendmentFlag
        /\ d.revocationFlag = plain.revocationFlag
    BY DEF applyTransition
  <2> HIDE DEF d, plain
  <2> QED
    BY <1>3, <2>1, <2>2 DEF AssuranceCase
<1>5. cases'[caseId] = d /\ \A k \in CaseIds \ {caseId} : cases'[k] = cases[k]
  BY <1>1
<1>6. evaluateTransition(c, rule, actor, DOCUMENT_TYPES, TRUE)
  BY <1>1, BestCall
<1> HIDE DEF d
<1> QED
  BY <1>1, <1>4, <1>5, <1>6 DEF LawfulChange

\* An upload whose case did not change meanwhile is lawful.
LEMMA UploadLawful ==
  ASSUME SimulatedInv, NEW r \in Uploads, uploads[r] # Idle,
         uploads[r].currentCase = cases[uploads[r].caseId],
         cases' = [cases EXCEPT ![uploads[r].caseId] = updatedCase(uploads[r])]
  PROVE  LawfulChange(uploads[r].caseId)
<1> DEFINE home == uploads[r].caseId
           c == cases[home]
           d == updatedCase(uploads[r])
<1>1. home \in CaseIds /\ c # NoCase /\ c \in AssuranceCase
  BY DEF SimulatedInv, Genuine
<1>2. PICK ids \in SUBSET DocumentIds : d = [c EXCEPT !.activeDocumentIds = ids]
  BY PutBack
<1>3. cases'[home] = d
  BY <1>1 DEF SimulatedInv
<1> HIDE DEF d
<1>4. d = [c EXCEPT !.activeDocumentIds = d.activeDocumentIds]
  BY <1>1, <1>2 DEF AssuranceCase
<1> QED
  BY <1>1, <1>3, <1>4 DEF LawfulChange

\* Nothing but an upload that finishes after its case was changed takes a
\* record where the chaincode could not.
THEOREM LateUploadsOnly == SimulatedSpec => OnlyLateUploadsUndo
<1> DEFINE Explained(caseId) ==
      \/ cases'[caseId] = cases[caseId]
      \/ LawfulChange(caseId)
      \/ \E r \in Uploads :
           /\ uploads[r] # Idle /\ uploads'[r] = Idle
           /\ uploads[r].caseId = caseId
           /\ uploads[r].currentCase # cases[caseId]
<1>1. SimulatedInv /\ [SimulatedNext]_simulatedVars
        => [\A caseId \in CaseIds : Explained(caseId)]_simulatedVars
  <2> SUFFICES ASSUME SimulatedInv, SimulatedNext, NEW k \in CaseIds
               PROVE  Explained(k)
    BY DEF simulatedVars
  <2>1. ASSUME NEW caseId \in CaseIds, NEW actor \in Actors,
               CaseRequest(caseId, actor)
        PROVE  Explained(k)
    <3>1. CASE createDraft(caseId, actor)
      <4>1. /\ cases[caseId] = NoCase
            /\ cases' = [cases EXCEPT ![caseId] = DraftCase]
            /\ cases \in [CaseIds -> AssuranceCase \cup {NoCase}]
        BY <3>1 DEF createDraft, persistCaseUpdate, Ledger!Exists, SimulatedInv
      <4>2. CASE k = caseId
        BY <4>1, <4>2 DEF LawfulChange
      <4> QED
        BY <4>1, <4>2
    <3> QED
      BY <2>1, <3>1, TransitionLawful DEF CaseRequest, transitionCase
  <2>2. ASSUME NEW r \in Uploads, UploadRequest(r)
        PROVE  Explained(k)
    <3>1. ASSUME NEW documentType, NEW sha256Hash, NEW actor,
                 uploadDocument(r, documentType, sha256Hash, actor)
          PROVE  Explained(k)
      <4>1. /\ uploads[r] # Idle
            /\ uploads'[r] = Idle
            /\ cases' = [cases EXCEPT ![uploads[r].caseId]
                                        = updatedCase(uploads[r])]
            /\ cases \in [CaseIds -> AssuranceCase \cup {NoCase}]
        BY <3>1 DEF uploadDocument, SimulatedInv
      <4>2. CASE k # uploads[r].caseId
        BY <4>1, <4>2
      <4>3. CASE k = uploads[r].caseId /\ uploads[r].currentCase = cases[k]
        BY <4>1, <4>3, UploadLawful
      <4> QED
        BY <4>1, <4>2, <4>3
    <3>2. CASE UNCHANGED cases
      BY <3>2
    <3> QED
      BY <2>2, <3>1, <3>2 DEF UploadRequest, readForUpload, refuseUpload
  <2> QED
    BY <2>1, <2>2 DEF SimulatedNext
<1> QED
  BY <1>1, SimulatedInvariance, PTL DEF SimulatedSpec, OnlyLateUploadsUndo

=============================================================================
