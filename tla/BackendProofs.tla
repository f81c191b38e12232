---------------------------- MODULE BackendProofs ----------------------------
(***************************************************************************)
(* The backend, for every set of cases, documents, requests and actors.    *)
(* With failures and any interleaving: the ledger keeps what is proved of  *)
(* it, and the mirror only ever shows what the ledger once held.  Without  *)
(* failures: the file of an anchored document is kept; one request at a    *)
(* time, the mirror is the ledger's copy between requests.                 *)
(***************************************************************************)
EXTENDS Backend, ChaincodeProofs

-----------------------------------------------------------------------------
(* What a request in flight may carry.                                     *)

RequestType ==
  [step : {"idle"}]
    \cup [step : {"createCase"}, caseId : CaseIds]
    \cup [step : {"transitionCase"}, caseId : CaseIds,
          seenState : WorkflowStates]
    \cup [step : {"persistCaseUpdate"}, caseId : CaseIds,
          caseRecord : AssuranceCase, event : WorkflowEvent,
          endorsers : {DOMESTIC_ENDORSERS, FOREIGN_ENDORSERS}]
    \cup [step : {"storeObject", "anchor"}, caseId : CaseIds,
          documentId : DocumentIds, superseded : DocumentIds \cup {Undefined},
          version : Nat, currentCase : AssuranceCase]
    \cup [step : {"persistDocument", "persistSnapshot"}, caseId : CaseIds,
          documentId : DocumentIds, reference : Documents!DocumentReference,
          currentCase : AssuranceCase]

MirrorTyped ==
  /\ mirrorCases \in [CaseIds -> AssuranceCase \cup {NoCase}]
  /\ mirrorDocuments \in [DocumentIds -> Documents!DocumentReference \cup {NoDocument}]

\* The ledger once held the case in this state, at this sequence number.
Shown(caseId, c) ==
  \E e \in Trail(caseId) :
    /\ e.sequence = c.auditSequenceNumber
    /\ e.newState = c.currentState

\* A copy of a reference of the ledger, possibly of when it was active.
CopyOf(reference, d) ==
  /\ documents[d] # NoDocument
  /\ [reference EXCEPT !.isActive = TRUE] = [documents[d] EXCEPT !.isActive = TRUE]
  /\ documents[d].isActive => reference.isActive

AnswerSound(q) ==
  q.step = "persistCaseUpdate" =>
    /\ q.event \in Trail(q.caseId)
    /\ q.event.sequence = q.caseRecord.auditSequenceNumber
    /\ q.event.newState = q.caseRecord.currentState

UploadSound(q) ==
  q.step \in {"storeObject", "anchor"} =>
    /\ Shown(q.caseId, q.currentCase)
    /\ q.superseded # Undefined => mirrorDocuments[q.superseded] # NoDocument

AnchoredSound(q) ==
  q.step \in {"persistDocument", "persistSnapshot"} =>
    LET superseded == q.reference.supersedesDocumentId
    IN /\ Shown(q.caseId, q.currentCase)
       /\ CopyOf(q.reference, q.documentId)
       /\ superseded # Undefined =>
            /\ superseded # q.documentId
            /\ mirrorDocuments[superseded] # NoDocument
            /\ documents[superseded] # NoDocument
            /\ ~documents[superseded].isActive

RequestSound(q) == AnswerSound(q) /\ UploadSound(q) /\ AnchoredSound(q)

RequestsSound ==
  /\ requests \in [Requests -> RequestType]
  /\ \A r \in Requests : RequestSound(requests[r])

BackendInv ==
  /\ ChaincodeInv
  /\ MirrorTyped
  /\ MirrorShowsPast
  /\ MirrorDocumentsSound
  /\ RequestsSound

-----------------------------------------------------------------------------
(* What survives a step of another request.                                *)

\* Two references agree but for the flag if they agree in every other field.
LEMMA ReferenceFields ==
  ASSUME NEW a \in Documents!DocumentReference,
         NEW b \in Documents!DocumentReference
  PROVE  [a EXCEPT !.isActive = TRUE] = [b EXCEPT !.isActive = TRUE]
           <=> /\ a.caseId = b.caseId
               /\ a.documentType = b.documentType
               /\ a.sha256Hash = b.sha256Hash
               /\ a.version = b.version
               /\ a.supersedesDocumentId = b.supersedesDocumentId
BY DEF Documents!DocumentReference

\* What a step leaves behind for the requests that did not take it: events and
\* references are never lost, on the ledger or in the mirror.
NothingLost ==
  /\ events \subseteq events'
  /\ ReferencesKept
  /\ documents \in [DocumentIds -> Documents!DocumentReference \cup {NoDocument}]
  /\ \A d \in DocumentIds :
       mirrorDocuments[d] # NoDocument => mirrorDocuments'[d] # NoDocument

\* A copy of a reference stays one.
LEMMA CopyKept ==
  ASSUME NothingLost, NEW reference \in Documents!DocumentReference,
         NEW d \in DocumentIds, CopyOf(reference, d)
  PROVE  CopyOf(reference, d)'
<1>1. documents[d] \in Documents!DocumentReference /\ documents[d] # NoDocument
  BY DEF NothingLost, CopyOf
<1>2. \/ documents'[d] = documents[d]
      \/ documents'[d] = [documents[d] EXCEPT !.isActive = FALSE]
  BY <1>1 DEF NothingLost, ReferencesKept
<1>3. /\ documents'[d] \in Documents!DocumentReference
      /\ documents'[d] # NoDocument
      /\ [documents'[d] EXCEPT !.isActive = TRUE]
           = [documents[d] EXCEPT !.isActive = TRUE]
      /\ documents'[d].isActive => documents[d].isActive
  BY <1>1, <1>2, NoDocumentAssumption DEF Documents!DocumentReference
<1> QED
  BY <1>3 DEF CopyOf

\* What a request carries stays sound.
LEMMA RequestStaysSound ==
  ASSUME NothingLost, NEW q \in RequestType, RequestSound(q)
  PROVE  RequestSound(q)'
<1>1. AnswerSound(q)'
  BY DEF RequestSound, AnswerSound, NothingLost, Trail
<1>2. UploadSound(q)'
  <2> SUFFICES ASSUME q.step \in {"storeObject", "anchor"}
               PROVE  /\ Shown(q.caseId, q.currentCase)'
                      /\ q.superseded # Undefined =>
                           mirrorDocuments'[q.superseded] # NoDocument
    BY DEF UploadSound
  <2>1. q.superseded \in DocumentIds \cup {Undefined}
    BY DEF RequestType
  <2> QED
    BY <2>1 DEF RequestSound, UploadSound, Shown, Trail, NothingLost
<1>3. AnchoredSound(q)'
  <2> DEFINE superseded == q.reference.supersedesDocumentId
  <2> SUFFICES ASSUME q.step \in {"persistDocument", "persistSnapshot"}
               PROVE  /\ Shown(q.caseId, q.currentCase)'
                      /\ CopyOf(q.reference, q.documentId)'
                      /\ superseded # Undefined =>
                           /\ superseded # q.documentId
                           /\ mirrorDocuments'[superseded] # NoDocument
                           /\ documents'[superseded] # NoDocument
                           /\ ~documents'[superseded].isActive
    BY DEF AnchoredSound
  <2>1. /\ q.reference \in Documents!DocumentReference
        /\ q.documentId \in DocumentIds
    BY DEF RequestType
  <2>2. superseded \in DocumentIds \cup {Undefined}
    BY <2>1, SameVocabulary DEF Documents!DocumentReference
  <2>3. Shown(q.caseId, q.currentCase)'
    BY DEF RequestSound, AnchoredSound, Shown, Trail, NothingLost
  <2>4. CopyOf(q.reference, q.documentId)'
    BY <2>1, CopyKept DEF RequestSound, AnchoredSound
  <2>5. ASSUME superseded # Undefined
        PROVE  /\ superseded # q.documentId
               /\ mirrorDocuments'[superseded] # NoDocument
               /\ documents'[superseded] # NoDocument
               /\ ~documents'[superseded].isActive
    <3>1. /\ superseded # q.documentId
          /\ mirrorDocuments[superseded] # NoDocument
          /\ documents[superseded] # NoDocument
          /\ ~documents[superseded].isActive
          /\ superseded \in DocumentIds
      BY <2>2, <2>5 DEF RequestSound, AnchoredSound
    <3>2. documents[superseded] \in Documents!DocumentReference
      BY <3>1 DEF NothingLost
    <3>3. \/ documents'[superseded] = documents[superseded]
          \/ documents'[superseded] = [documents[superseded] EXCEPT !.isActive = FALSE]
      BY <3>1 DEF NothingLost, ReferencesKept
    <3>4. documents'[superseded] # NoDocument /\ ~documents'[superseded].isActive
      BY <3>1, <3>2, <3>3, NoDocumentAssumption DEF Documents!DocumentReference
    <3> QED
      BY <3>1, <3>4 DEF NothingLost
  <2> QED
    BY <2>3, <2>4, <2>5
<1> QED
  BY <1>1, <1>2, <1>3 DEF RequestSound

\* A request that goes on leaves the others sound if it is.
LEMMA BecomesSound ==
  ASSUME RequestsSound, NothingLost, NEW r \in Requests,
         NEW q \in RequestType, Become(r, q), RequestSound(q)'
  PROVE  RequestsSound'
<1>1. requests' \in [Requests -> RequestType]
  BY DEF RequestsSound, Become
<1>2. ASSUME NEW other \in Requests
      PROVE  RequestSound(requests[other])'
  <2>1. PICK p \in RequestType : p = requests'[other]
    BY <1>1
  <2>2. RequestSound(p)'
    <3>1. CASE other = r
      BY <2>1, <3>1 DEF Become, RequestsSound
    <3>2. CASE other # r
      <4>1. p = requests[other]
        BY <2>1, <3>2 DEF Become, RequestsSound
      <4>2. RequestSound(p)
        BY <4>1 DEF RequestsSound
      <4> QED
        BY <4>2, RequestStaysSound
    <3> QED
      BY <3>1, <3>2
  <2> QED
    BY <2>1, <2>2
<1> QED
  BY <1>1, <1>2 DEF RequestsSound

\* A request that ends carries nothing.
LEMMA IdleSound ==
  Idle \in RequestType /\ RequestSound(Idle) /\ RequestSound(Idle)'
BY DEF Idle, RequestType, RequestSound, AnswerSound, UploadSound, AnchoredSound

\* While the mirror stays, it goes on showing what the ledger once held.
LEMMA MirrorStaysSound ==
  ASSUME MirrorTyped, MirrorShowsPast, MirrorDocumentsSound, NothingLost,
         UNCHANGED mirror
  PROVE  MirrorTyped' /\ MirrorShowsPast' /\ MirrorDocumentsSound'
<1>1. /\ mirrorCases' = mirrorCases
      /\ mirrorEvents' = mirrorEvents
      /\ mirrorDocuments' = mirrorDocuments
  BY DEF mirror
<1>2. MirrorShowsPast'
  BY <1>1 DEF MirrorShowsPast, Mirrored, Trail, NothingLost
<1>3. MirrorDocumentsSound'
  <2> SUFFICES ASSUME NEW d \in DocumentIds, mirrorDocuments[d] # NoDocument
               PROVE  CopyOf(mirrorDocuments[d], d)'
    BY <1>1 DEF MirrorDocumentsSound, CopyOf
  <2>1. PICK reference \in Documents!DocumentReference :
          reference = mirrorDocuments[d]
    BY DEF MirrorTyped
  <2>2. CopyOf(reference, d)
    BY <2>1 DEF MirrorDocumentsSound, CopyOf
  <2>3. CopyOf(reference, d)'
    BY <2>2, CopyKept
  <2> QED
    BY <1>1, <2>1, <2>3
<1> QED
  BY <1>1, <1>2, <1>3 DEF MirrorTyped

-----------------------------------------------------------------------------
(* What a request does to the ledger.                                      *)

\* The fields a request carries at each step.
LEMMA RequestFields ==
  ASSUME NEW q \in RequestType
  PROVE  /\ q.step \in {"createCase", "transitionCase"} => q.caseId \in CaseIds
         /\ q.step = "persistCaseUpdate" =>
              /\ q.caseId \in CaseIds
              /\ q.caseRecord \in AssuranceCase
              /\ q.event \in WorkflowEvent
         /\ q.step \in {"storeObject", "anchor"} =>
              /\ q.caseId \in CaseIds
              /\ q.documentId \in DocumentIds
              /\ q.superseded \in DocumentIds \cup {Undefined}
              /\ q.version \in Nat
              /\ q.currentCase \in AssuranceCase
         /\ q.step \in {"persistDocument", "persistSnapshot"} =>
              /\ q.caseId \in CaseIds
              /\ q.documentId \in DocumentIds
              /\ q.reference \in Documents!DocumentReference
              /\ q.currentCase \in AssuranceCase
BY DEF RequestType

\* The reference that a request anchors.
AnchoredBy(q, documentType, sha256Hash) ==
  [caseId |-> q.caseId, documentType |-> documentType,
   sha256Hash |-> sha256Hash, version |-> q.version,
   supersedesDocumentId |-> q.superseded, isActive |-> TRUE]

\* An upload anchors its reference as it sent it.
LEMMA RequestAnchors ==
  ASSUME BackendInv, NEW r \in Requests, NEW documentType \in AnchoredTypes,
         NEW sha256Hash \in Hashes, NEW actor \in Actors,
         anchor(r, documentType, sha256Hash, actor)
  PROVE  LET reference == AnchoredBy(requests[r], documentType, sha256Hash)
         IN /\ reference \in Documents!DocumentReference
            /\ requests[r].documentId \in DocumentIds
            /\ requests[r].superseded \in DocumentIds \cup {Undefined}
            /\ Anchors(requests[r].documentId, reference, requests[r].superseded)
<1> DEFINE q == requests[r]
           reference == AnchoredBy(q, documentType, sha256Hash)
<1>1. q \in RequestType /\ q.step = "anchor"
  BY DEF BackendInv, RequestsSound, anchor
<1>2. /\ q.caseId \in CaseIds
      /\ q.documentId \in DocumentIds
      /\ q.superseded \in DocumentIds \cup {Undefined}
      /\ q.version \in Nat
  BY <1>1, RequestFields
<1>3. documentType \in Documents!DOCUMENT_TYPES
  BY ChaincodeAssumption, SameVocabulary
<1> HIDE DEF q
<1>4. reference \in Documents!DocumentReference
  BY <1>2, <1>3, SameVocabulary DEF AnchoredBy, Documents!DocumentReference
<1>5. /\ [reference EXCEPT !.isActive = TRUE] = reference
      /\ reference.supersedesDocumentId = q.superseded
  <2>1. /\ reference.isActive = TRUE
        /\ reference.supersedesDocumentId = q.superseded
    BY DEF AnchoredBy
  <2> HIDE DEF reference
  <2> QED
    BY <1>4, <2>1 DEF Documents!DocumentReference
<1>6. UNCHANGED <<stateIndex, events>>
  BY DEF anchor
<1>7. CASE q.superseded = Undefined
  <2>1. Documents!addDocumentReference(q.documentId, reference, actor)
    BY <1>7 DEF anchor, AnchoredBy, q
  <2>2. Anchors(q.documentId, [reference EXCEPT !.isActive = TRUE], Undefined)
    BY <1>2, <1>4, <1>6, <2>1, FirstVersionAnchors DEF BackendInv
  <2> QED
    BY <1>2, <1>4, <1>5, <1>7, <2>2 DEF q
<1>8. CASE q.superseded # Undefined
  <2>1. Documents!updateDocumentVersion(q.documentId, reference, actor)
    BY <1>8 DEF anchor, AnchoredBy, q
  <2>2. Anchors(q.documentId, [reference EXCEPT !.isActive = TRUE],
                reference.supersedesDocumentId)
    BY <1>2, <1>4, <1>6, <2>1, NextVersionAnchors
  <2> QED
    BY <1>2, <1>4, <1>5, <1>8, <2>2 DEF q
<1> QED
  BY <1>7, <1>8

\* A draft is created as by any caller.
LEMMA RequestCreates ==
  ASSUME BackendInv, NEW r \in Requests, NEW actor \in Actors,
         relayCreateCase(r, actor)
  PROVE  /\ requests[r].caseId \in CaseIds
         /\ createCase(requests[r].caseId, actor)
         /\ LedgerStep
<1>1. requests[r].caseId \in CaseIds
  BY RequestFields DEF BackendInv, RequestsSound, relayCreateCase
<1>2. createCase(requests[r].caseId, actor) /\ actor \in UserClaims
  BY CaseContractAssumption DEF relayCreateCase
<1>3. CaseStep
  BY <1>1, <1>2 DEF CaseStep
<1> QED
  BY <1>1, <1>2, <1>3 DEF relayCreateCase, LedgerStep

\* A transition is performed as by any caller.
LEMMA RequestTransits ==
  ASSUME BackendInv, NEW r \in Requests, NEW rule \in TRANSITIONS,
         NEW actor \in Actors, NEW types, NEW ids \in SUBSET DocumentIds,
         NEW justified \in BOOLEAN,
         relayTransition(r, rule, actor, types, ids, justified)
  PROVE  /\ requests[r].caseId \in CaseIds
         /\ actor \in UserClaims
         /\ PlanArguments(rule.action, ids) \in SUBSET DocumentIds
         /\ performTransition(requests[r].caseId, rule, actor,
                              PlanArguments(rule.action, types),
                              PlanArguments(rule.action, ids), justified)
         /\ LedgerStep
<1>1. requests[r].caseId \in CaseIds
  BY RequestFields DEF BackendInv, RequestsSound, relayTransition
<1>2. /\ actor \in UserClaims
      /\ PlanArguments(rule.action, ids) \in SUBSET DocumentIds
  BY CaseContractAssumption DEF PlanArguments
<1>3. performTransition(requests[r].caseId, rule, actor,
                        PlanArguments(rule.action, types),
                        PlanArguments(rule.action, ids), justified)
  BY DEF relayTransition
<1>4. CaseStep
  BY <1>1, <1>2, <1>3 DEF CaseStep
<1> QED
  BY <1>1, <1>2, <1>3, <1>4 DEF relayTransition, LedgerStep

\* Every step of a request is a transaction or leaves the ledger alone.
LEMMA BackendLedgerSteps ==
  ASSUME BackendInv, BackendNext
  PROVE  LedgerStep \/ UNCHANGED chaincodeVars
<1>1. CASE crash
  BY <1>1 DEF crash
<1>2. ASSUME NEW r \in Requests, CaseRequest(r)
      PROVE  LedgerStep \/ UNCHANGED chaincodeVars
  <2>1. ASSUME NEW actor \in Actors, relayCreateCase(r, actor)
        PROVE  LedgerStep
    BY <2>1, RequestCreates
  <2>2. ASSUME NEW rule \in TRANSITIONS, NEW actor \in Actors,
               NEW ids \in SUBSET DocumentIds, NEW justified \in BOOLEAN,
               transitionCase(r, rule, actor, ids, justified)
        PROVE  LedgerStep
    BY <2>2, RequestTransits DEF transitionCase
  <2> QED
    BY <1>2, <2>1, <2>2 DEF CaseRequest, createDraft, readCase, refuseCase,
       mirrorCaseUpdate, failCaseUpdate
<1>3. ASSUME NEW r \in Requests, UploadRequest(r)
      PROVE  LedgerStep \/ UNCHANGED chaincodeVars
  <2>1. ASSUME NEW documentType \in AnchoredTypes, NEW sha256Hash \in Hashes,
               NEW actor \in Actors, anchor(r, documentType, sha256Hash, actor)
        PROVE  LedgerStep
    BY <2>1, RequestAnchors DEF LedgerStep
  <2> QED
    BY <1>3, <2>1 DEF UploadRequest, readForUpload, storeObject, refuseAnchor,
       mirrorDocument, mirrorSnapshot, failStore, failUpload
<1> QED
  BY <1>1, <1>2, <1>3 DEF BackendNext

-----------------------------------------------------------------------------
(* What a request carries on.                                              *)

\* The request in slot r goes on with something sound, or ends.
GoesOn(r) == \E q \in RequestType : Become(r, q) /\ RequestSound(q)'

\* A request may always end.
LEMMA EndsSound ==
  ASSUME NEW r \in Requests, Become(r, Idle)
  PROVE  GoesOn(r)
BY IdleSound DEF GoesOn

\* A request keeps an answer whose event the transaction recorded.
LEMMA AnswerGoesOn ==
  ASSUME NEW r \in Requests, NEW caseId \in CaseIds,
         NEW caseRecord \in AssuranceCase, NEW event \in WorkflowEvent,
         NEW endorsers \in {DOMESTIC_ENDORSERS, FOREIGN_ENDORSERS},
         Become(r, Answer(caseId, caseRecord, event, endorsers)),
         event \in events', event.caseId = caseId,
         event.sequence = caseRecord.auditSequenceNumber,
         event.newState = caseRecord.currentState
  PROVE  GoesOn(r)
<1>1. PICK q \in RequestType : q = Answer(caseId, caseRecord, event, endorsers)
  BY DEF RequestType, Answer
<1>2. /\ q.step = "persistCaseUpdate"
      /\ q.caseId = caseId
      /\ q.caseRecord = caseRecord
      /\ q.event = event
  BY <1>1 DEF Answer
<1>3. RequestSound(q)'
  BY <1>2 DEF RequestSound, AnswerSound, UploadSound, AnchoredSound, Trail
<1> QED
  BY <1>1, <1>3 DEF GoesOn

\* The creation of a draft is answered with the draft and its first event.
LEMMA CreationGoesOn ==
  ASSUME BackendInv, NEW r \in Requests, NEW actor \in Actors,
         relayCreateCase(r, actor)
  PROVE  GoesOn(r)
<1> DEFINE caseId == requests[r].caseId
           event == [caseId |-> caseId, sequence |-> 1,
                     actionType |-> "create_case",
                     previousState |-> Undefined, newState |-> "draft"]
           endorsers == resolveWorkflowEndorsers("create_case", actor, Undefined)
<1>1. caseId \in CaseIds /\ createCase(caseId, actor)
  BY RequestCreates
<1> HIDE DEF caseId
<1>2. event \in WorkflowEvent /\ event.caseId = caseId
  BY <1>1 DEF WorkflowEvent, WorkflowActions, WorkflowStates
<1>3. /\ DraftCase \in AssuranceCase
      /\ event.sequence = DraftCase.auditSequenceNumber
      /\ event.newState = DraftCase.currentState
  BY DraftPreserves DEF RecordInv, DraftCase
<1>4. event \in events'
  BY <1>1 DEF createCase, appendEvent
<1>5. endorsers \in {DOMESTIC_ENDORSERS, FOREIGN_ENDORSERS}
  BY DEF resolveWorkflowEndorsers
<1>6. \/ Become(r, Answer(caseId, DraftCase, event, endorsers))
      \/ Become(r, Idle)
  BY DEF relayCreateCase, caseId
<1> QED
  <2> HIDE DEF event, endorsers
  <2> QED
    BY <1>1, <1>2, <1>3, <1>4, <1>5, <1>6, AnswerGoesOn, EndsSound

\* A transition is answered with the record it stored and the event it added.
LEMMA TransitionGoesOn ==
  ASSUME BackendInv, NEW r \in Requests, NEW rule \in TRANSITIONS,
         NEW actor \in Actors, NEW types, NEW ids \in SUBSET DocumentIds,
         NEW justified \in BOOLEAN,
         relayTransition(r, rule, actor, types, ids, justified)
  PROVE  GoesOn(r)
<1> DEFINE caseId == requests[r].caseId
           given == PlanArguments(rule.action, ids)
           c == cases[caseId]
           d == applyTransition(c, rule, actor, given)
           event == [caseId |-> caseId, sequence |-> d.auditSequenceNumber,
                     actionType |-> rule.action,
                     previousState |-> c.currentState,
                     newState |-> d.currentState]
           endorsers == resolveWorkflowEndorsers(rule.action, actor,
                                                 requests[r].seenState)
<1>1. /\ caseId \in CaseIds
      /\ actor \in UserClaims
      /\ given \in SUBSET DocumentIds
      /\ performTransition(caseId, rule, actor,
                           PlanArguments(rule.action, types), given, justified)
  BY RequestTransits
<1> HIDE DEF caseId, given
<1>2. PICK e \in WorkflowEvent :
        Writes(caseId, d, e) /\ Exists(caseId) /\ e.actionType = rule.action
  BY <1>1, TransitionWrites DEF BackendInv, ChaincodeInv
<1>3. cases' = [cases EXCEPT ![caseId] = d] /\ appendEvent(event)
  BY <1>1 DEF performTransition, putCase
<1>4. cases'[caseId] = d
  BY <1>1, <1>3 DEF BackendInv, ChaincodeInv, IInv, TypeOK
<1>5. d \in AssuranceCase
  BY <1>2 DEF Writes, RecordInv
<1>6. event \in events'
  BY <1>3 DEF appendEvent
<1>7. endorsers \in {DOMESTIC_ENDORSERS, FOREIGN_ENDORSERS}
  BY DEF resolveWorkflowEndorsers
<1>8. \/ Become(r, Answer(caseId, d, event, endorsers))
      \/ Become(r, Idle)
  BY <1>4 DEF relayTransition, caseId
<1> HIDE DEF c, d
<1>9. event \in WorkflowEvent
  <2>1. event \in events' /\ TypeOK'
    BY <1>1, <1>2, <1>6, TypeOKWritten DEF BackendInv, ChaincodeInv
  <2> QED
    BY <2>1 DEF TypeOK
<1>10. /\ event.caseId = caseId
       /\ event.sequence = d.auditSequenceNumber
       /\ event.newState = d.currentState
  OBVIOUS
<1> HIDE DEF event, endorsers
<1> QED
  BY <1>1, <1>5, <1>6, <1>7, <1>8, <1>9, <1>10, AnswerGoesOn, EndsSound

\* An upload keeps a record that the mirror showed and a version to supersede.
LEMMA UploadGoesOn ==
  ASSUME BackendInv, NothingLost, NEW r \in Requests,
         \/ \E caseId \in CaseIds, documentId \in DocumentIds,
              superseded \in DocumentIds \cup {Undefined} :
             readForUpload(r, caseId, documentId, superseded)
         \/ storeObject(r)
  PROVE  GoesOn(r)
<1>1. ASSUME NEW caseId \in CaseIds, NEW documentId \in DocumentIds,
             NEW superseded \in DocumentIds \cup {Undefined},
             readForUpload(r, caseId, documentId, superseded)
      PROVE  GoesOn(r)
  <2> DEFINE version == IF superseded = Undefined THEN 1
                        ELSE mirrorDocuments[superseded].version + 1
  <2>1. mirrorCases[caseId] \in AssuranceCase /\ Mirrored(caseId)
    BY <1>1 DEF readForUpload, Mirrored, BackendInv, MirrorTyped
  <2>2. superseded # Undefined =>
          /\ mirrorDocuments[superseded] # NoDocument
          /\ mirrorDocuments[superseded] \in Documents!DocumentReference
    BY <1>1 DEF readForUpload, BackendInv, MirrorTyped
  <2>3. version \in Nat
    BY <2>2 DEF Documents!DocumentReference
  <2> HIDE DEF version
  <2>4. PICK q \in RequestType :
          q = [step |-> "storeObject", caseId |-> caseId,
               documentId |-> documentId, superseded |-> superseded,
               version |-> version, currentCase |-> mirrorCases[caseId]]
    BY <2>1, <2>3 DEF RequestType
  <2>5. Become(r, q)
    BY <1>1, <2>4 DEF readForUpload, version
  <2>6. Shown(q.caseId, q.currentCase)'
    BY <2>1, <2>4 DEF BackendInv, MirrorShowsPast, Shown, Trail, NothingLost
  <2>7. superseded # Undefined => mirrorDocuments'[superseded] # NoDocument
    BY <2>2 DEF NothingLost
  <2>8. RequestSound(q)'
    BY <2>4, <2>6, <2>7 DEF RequestSound, AnswerSound, UploadSound, AnchoredSound
  <2> QED
    BY <2>5, <2>8 DEF GoesOn
<1>2. CASE storeObject(r)
  <2>1. PICK p \in RequestType : p = requests[r] /\ RequestSound(p)
    BY DEF BackendInv, RequestsSound
  <2>2. p.step = "storeObject" /\ Become(r, [p EXCEPT !.step = "anchor"])
    BY <1>2, <2>1 DEF storeObject
  <2>3. PICK q \in RequestType : q = [p EXCEPT !.step = "anchor"]
    BY <2>2 DEF RequestType
  <2>4. /\ q.step = "anchor"
        /\ q.caseId = p.caseId
        /\ q.currentCase = p.currentCase
        /\ q.superseded = p.superseded
    BY <2>2, <2>3 DEF RequestType
  <2>5. RequestSound(q)
    BY <2>1, <2>2, <2>4
    DEF RequestSound, AnswerSound, UploadSound, AnchoredSound
  <2>6. RequestSound(q)'
    BY <2>5, RequestStaysSound
  <2> QED
    BY <2>2, <2>3, <2>6 DEF GoesOn
<1> QED
  BY <1>1, <1>2

\* An anchored upload keeps the reference that it anchored, whose predecessor
\* is switched off.
LEMMA AnchoringGoesOn ==
  ASSUME BackendInv, NothingLost, NEW r \in Requests,
         NEW documentType \in AnchoredTypes,
         NEW sha256Hash \in Hashes, NEW actor \in Actors,
         anchor(r, documentType, sha256Hash, actor)
  PROVE  GoesOn(r)
<1> DEFINE reference == AnchoredBy(requests[r], documentType, sha256Hash)
<1>1. PICK p \in RequestType :
        p = requests[r] /\ RequestSound(p) /\ p.step = "anchor"
  BY DEF BackendInv, RequestsSound, anchor
<1>2. /\ reference \in Documents!DocumentReference
      /\ p.documentId \in DocumentIds
      /\ p.superseded \in DocumentIds \cup {Undefined}
      /\ Anchors(p.documentId, reference, p.superseded)
  BY <1>1, RequestAnchors
<1>3. /\ reference.supersedesDocumentId = p.superseded
      /\ reference.isActive
  BY <1>1 DEF AnchoredBy
<1>4. \/ Become(r, [step |-> "persistDocument", caseId |-> p.caseId,
                    documentId |-> p.documentId, reference |-> reference,
                    currentCase |-> p.currentCase])
      \/ Become(r, Idle)
  BY <1>1 DEF anchor, deleteObject, AnchoredBy
<1> HIDE DEF reference
<1>5. p.caseId \in CaseIds /\ p.currentCase \in AssuranceCase
  BY <1>1, RequestFields
<1>6. PICK q \in RequestType :
        q = [step |-> "persistDocument", caseId |-> p.caseId,
             documentId |-> p.documentId, reference |-> reference,
             currentCase |-> p.currentCase]
  BY <1>2, <1>5 DEF RequestType
<1>7. Shown(q.caseId, q.currentCase)'
  BY <1>1, <1>6 DEF RequestSound, UploadSound, Shown, Trail, NothingLost
<1>8. documents'[p.documentId] = reference
  BY <1>2 DEF Anchors, NothingLost
<1>9. CopyOf(q.reference, q.documentId)'
  BY <1>2, <1>6, <1>8, NoDocumentAssumption DEF CopyOf
<1>10. p.superseded # Undefined =>
         /\ p.superseded # p.documentId
         /\ mirrorDocuments'[p.superseded] # NoDocument
         /\ documents'[p.superseded] # NoDocument
         /\ ~documents'[p.superseded].isActive
  <2> SUFFICES ASSUME p.superseded # Undefined
               PROVE  /\ p.superseded # p.documentId
                      /\ mirrorDocuments'[p.superseded] # NoDocument
                      /\ documents'[p.superseded] # NoDocument
                      /\ ~documents'[p.superseded].isActive
    OBVIOUS
  <2>1. /\ p.superseded # p.documentId
        /\ documents[p.superseded] \in Documents!DocumentReference
        /\ p.superseded \in DocumentIds
    BY <1>2 DEF Anchors, Anchored, NothingLost
  <2>2. mirrorDocuments'[p.superseded] # NoDocument
    BY <1>1, <2>1 DEF RequestSound, UploadSound, NothingLost
  <2>3. documents'[p.superseded] = [documents[p.superseded] EXCEPT !.isActive = FALSE]
    BY <1>2, <2>1 DEF Anchors, NothingLost
  <2>4. documents'[p.superseded] # NoDocument /\ ~documents'[p.superseded].isActive
    BY <2>1, <2>3, NoDocumentAssumption DEF Documents!DocumentReference
  <2> QED
    BY <2>1, <2>2, <2>4
<1>11. RequestSound(q)'
  BY <1>3, <1>6, <1>7, <1>9, <1>10
  DEF RequestSound, AnswerSound, UploadSound, AnchoredSound
<1> QED
  BY <1>4, <1>6, <1>11, EndsSound DEF GoesOn

-----------------------------------------------------------------------------
(* What a request writes into the mirror.                                  *)

MirrorSound == MirrorTyped /\ MirrorShowsPast /\ MirrorDocumentsSound

\* A step that leaves the ledger alone and keeps the mirrored documents loses
\* nothing.
LEMMA MirrorStepLosesNothing ==
  ASSUME BackendInv, UNCHANGED chaincodeVars,
         \A d \in DocumentIds :
           mirrorDocuments[d] # NoDocument => mirrorDocuments'[d] # NoDocument
  PROVE  NothingLost /\ ChaincodeInv'
BY LedgerUnchangedKeeps
DEF BackendInv, NothingLost, ChaincodeInv, ReferencesTyped

\* persistCaseUpdate writes a record and its event.
LEMMA CaseMirrored ==
  ASSUME BackendInv, NEW r \in Requests, mirrorCaseUpdate(r)
  PROVE  MirrorSound' /\ NothingLost /\ ChaincodeInv' /\ GoesOn(r)
<1>1. PICK q \in RequestType :
        q = requests[r] /\ RequestSound(q) /\ q.step = "persistCaseUpdate"
  BY DEF BackendInv, RequestsSound, mirrorCaseUpdate
<1>2. /\ q.caseId \in CaseIds
      /\ q.caseRecord \in AssuranceCase
  BY <1>1, RequestFields
<1>3. /\ mirrorCases' = [mirrorCases EXCEPT ![q.caseId] = q.caseRecord]
      /\ mirrorEvents' \subseteq mirrorEvents \cup {q.event}
      /\ mirrorDocuments' = mirrorDocuments
      /\ UNCHANGED chaincodeVars
  BY <1>1 DEF mirrorCaseUpdate, persistCaseUpdate, persistEvent
<1>4. NothingLost /\ ChaincodeInv'
  BY <1>3, MirrorStepLosesNothing
<1>5. /\ UNCHANGED events
      /\ UNCHANGED documents
  BY <1>3 DEF chaincodeVars, vars
<1>6. /\ q.event \in events
      /\ Shown(q.caseId, q.caseRecord)
  BY <1>1 DEF RequestSound, AnswerSound, Shown, Trail
<1>7. MirrorTyped'
  BY <1>2, <1>3 DEF BackendInv, MirrorTyped
<1>8. MirrorShowsPast'
  <2>1. mirrorEvents' \subseteq events'
    BY <1>3, <1>5, <1>6 DEF BackendInv, MirrorShowsPast
  <2>2. ASSUME NEW caseId \in CaseIds, mirrorCases'[caseId] # NoCase
        PROVE  \E e \in Trail(caseId)' :
                 /\ e.sequence = mirrorCases'[caseId].auditSequenceNumber
                 /\ e.newState = mirrorCases'[caseId].currentState
    <3>1. CASE caseId = q.caseId
      <4>1. mirrorCases'[caseId] = q.caseRecord
        BY <1>2, <1>3, <3>1 DEF BackendInv, MirrorTyped
      <4> QED
        BY <1>5, <1>6, <3>1, <4>1 DEF Shown, Trail
    <3>2. CASE caseId # q.caseId
      <4>1. mirrorCases'[caseId] = mirrorCases[caseId]
        BY <1>3, <3>2 DEF BackendInv, MirrorTyped
      <4> QED
        BY <1>5, <2>2, <4>1 DEF BackendInv, MirrorShowsPast, Mirrored, Trail
    <3> QED
      BY <3>1, <3>2
  <2> QED
    BY <2>1, <2>2 DEF MirrorShowsPast, Mirrored
<1>9. MirrorDocumentsSound'
  BY <1>3, <1>5 DEF BackendInv, MirrorDocumentsSound
<1> QED
  BY <1>4, <1>7, <1>8, <1>9, EndsSound DEF MirrorSound, mirrorCaseUpdate

\* persistDocumentUpdate writes a reference and switches its predecessor off.
LEMMA DocumentMirrored ==
  ASSUME BackendInv, NEW r \in Requests, mirrorDocument(r)
  PROVE  MirrorSound' /\ NothingLost /\ ChaincodeInv' /\ GoesOn(r)
<1>1. PICK q \in RequestType :
        q = requests[r] /\ RequestSound(q) /\ q.step = "persistDocument"
  BY DEF BackendInv, RequestsSound, mirrorDocument
<1> DEFINE superseded == q.reference.supersedesDocumentId
<1>2. /\ q.documentId \in DocumentIds
      /\ q.reference \in Documents!DocumentReference
      /\ q.reference # NoDocument
      /\ CopyOf(q.reference, q.documentId)
  BY <1>1, RequestFields, NoDocumentAssumption
  DEF RequestSound, AnchoredSound
<1>3. mirrorDocuments' =
        [d \in DocumentIds |->
           CASE d = q.documentId -> q.reference
             [] d = superseded -> [mirrorDocuments[d] EXCEPT !.isActive = FALSE]
             [] OTHER -> mirrorDocuments[d]]
  BY <1>1 DEF mirrorDocument, persistDocumentUpdate
<1>4. /\ UNCHANGED chaincodeVars
      /\ UNCHANGED <<mirrorCases, mirrorEvents>>
      /\ Become(r, [q EXCEPT !.step = "persistSnapshot"])
  BY <1>1 DEF mirrorDocument, persistDocumentUpdate
<1>5. UNCHANGED events /\ UNCHANGED documents
  BY <1>4 DEF chaincodeVars, vars
<1>6. superseded # Undefined =>
        /\ superseded \in DocumentIds
        /\ superseded # q.documentId
        /\ mirrorDocuments[superseded] # NoDocument
        /\ ~documents[superseded].isActive
  BY <1>1, <1>2, SameVocabulary
  DEF RequestSound, AnchoredSound, Documents!DocumentReference
<1> HIDE DEF superseded
<1>7. /\ mirrorDocuments'[q.documentId] = q.reference
      /\ \A d \in DocumentIds \ {q.documentId} :
           d # superseded => mirrorDocuments'[d] = mirrorDocuments[d]
  BY <1>2, <1>3, <1>6, ChaincodeAssumption
<1>8. superseded \in DocumentIds =>
        /\ superseded # q.documentId
        /\ mirrorDocuments[superseded] \in Documents!DocumentReference
        /\ mirrorDocuments'[superseded]
             = [mirrorDocuments[superseded] EXCEPT !.isActive = FALSE]
        /\ ~documents[superseded].isActive
  BY <1>3, <1>6, ChaincodeAssumption DEF BackendInv, MirrorTyped
<1>9. superseded \in DocumentIds =>
        /\ mirrorDocuments'[superseded] \in Documents!DocumentReference
        /\ mirrorDocuments'[superseded] # NoDocument
        /\ CopyOf(mirrorDocuments'[superseded], superseded)
  <2> SUFFICES ASSUME superseded \in DocumentIds
               PROVE  /\ mirrorDocuments'[superseded] \in Documents!DocumentReference
                      /\ mirrorDocuments'[superseded] # NoDocument
                      /\ CopyOf(mirrorDocuments'[superseded], superseded)
    OBVIOUS
  <2>1. /\ mirrorDocuments'[superseded] \in Documents!DocumentReference
        /\ [mirrorDocuments'[superseded] EXCEPT !.isActive = TRUE]
             = [mirrorDocuments[superseded] EXCEPT !.isActive = TRUE]
    BY <1>8 DEF Documents!DocumentReference
  <2>2. CopyOf(mirrorDocuments[superseded], superseded)
    BY <1>8, NoDocumentAssumption DEF BackendInv, MirrorDocumentsSound, CopyOf
  <2> QED
    BY <1>8, <2>1, <2>2, NoDocumentAssumption DEF CopyOf
<1>10. NothingLost /\ ChaincodeInv'
  <2>1. \A d \in DocumentIds :
          mirrorDocuments[d] # NoDocument => mirrorDocuments'[d] # NoDocument
    BY <1>2, <1>7, <1>9
  <2> QED
    BY <1>4, <2>1, MirrorStepLosesNothing
<1>11. MirrorTyped'
  <2>1. \A d \in DocumentIds :
          mirrorDocuments'[d] \in Documents!DocumentReference \cup {NoDocument}
    BY <1>2, <1>7, <1>9 DEF BackendInv, MirrorTyped
  <2>2. mirrorDocuments' = [d \in DocumentIds |-> mirrorDocuments'[d]]
    BY <1>3
  <2> QED
    BY <1>4, <2>1, <2>2 DEF BackendInv, MirrorTyped
<1>12. MirrorShowsPast'
  BY <1>4, <1>5 DEF BackendInv, MirrorShowsPast, Mirrored, Trail
<1>13. MirrorDocumentsSound'
  <2> SUFFICES ASSUME NEW d \in DocumentIds, mirrorDocuments'[d] # NoDocument
               PROVE  CopyOf(mirrorDocuments'[d], d)
    BY <1>5 DEF MirrorDocumentsSound, CopyOf
  <2>1. CASE d = q.documentId
    BY <1>2, <1>7, <2>1
  <2>2. CASE d = superseded
    BY <1>9, <2>2
  <2>3. CASE d # q.documentId /\ d # superseded
    BY <1>7, <2>3 DEF BackendInv, MirrorDocumentsSound, CopyOf
  <2> QED
    BY <2>1, <2>2, <2>3
<1>14. GoesOn(r)
  <2>1. PICK p \in RequestType : p = [q EXCEPT !.step = "persistSnapshot"]
    BY <1>1 DEF RequestType
  <2>2. /\ p.step = "persistSnapshot"
        /\ p.caseId = q.caseId
        /\ p.documentId = q.documentId
        /\ p.reference = q.reference
        /\ p.currentCase = q.currentCase
    BY <1>1, <2>1 DEF RequestType
  <2>3. RequestSound(p)
    BY <1>1, <2>2 DEF RequestSound, AnswerSound, UploadSound, AnchoredSound
  <2>4. RequestSound(p)'
    BY <1>10, <2>3, RequestStaysSound
  <2> QED
    BY <1>4, <2>1, <2>4 DEF GoesOn
<1> QED
  BY <1>10, <1>11, <1>12, <1>13, <1>14 DEF MirrorSound

\* persistCaseSnapshot writes the record read before the upload.
LEMMA SnapshotMirrored ==
  ASSUME BackendInv, NEW r \in Requests, mirrorSnapshot(r)
  PROVE  MirrorSound' /\ NothingLost /\ ChaincodeInv' /\ GoesOn(r)
<1>1. PICK q \in RequestType :
        q = requests[r] /\ RequestSound(q) /\ q.step = "persistSnapshot"
  BY DEF BackendInv, RequestsSound, mirrorSnapshot
<1>2. /\ q.caseId \in CaseIds
      /\ q.documentId \in DocumentIds
      /\ q.currentCase \in AssuranceCase
  BY <1>1, RequestFields
<1>3. PICK c \in AssuranceCase :
        /\ c = updatedCase(q)
        /\ c.auditSequenceNumber = q.currentCase.auditSequenceNumber
        /\ c.currentState = q.currentCase.currentState
  <2> DEFINE ids == (q.currentCase.activeDocumentIds
                       \ {q.reference.supersedesDocumentId}) \cup {q.documentId}
  <2>1. ids \in SUBSET DocumentIds
    BY <1>2 DEF AssuranceCase
  <2>2. updatedCase(q) = [q.currentCase EXCEPT !.activeDocumentIds = ids]
    BY DEF updatedCase
  <2> HIDE DEF ids
  <2> QED
    BY <1>2, <2>1, <2>2 DEF AssuranceCase
<1>4. /\ mirrorCases' = [mirrorCases EXCEPT ![q.caseId] = c]
      /\ UNCHANGED <<mirrorEvents, mirrorDocuments>>
      /\ UNCHANGED chaincodeVars
  BY <1>1, <1>3 DEF mirrorSnapshot, persistCaseSnapshot
<1>5. NothingLost /\ ChaincodeInv'
  BY <1>4, MirrorStepLosesNothing
<1>6. UNCHANGED events /\ UNCHANGED documents
  BY <1>4 DEF chaincodeVars, vars
<1>7. Shown(q.caseId, c)
  BY <1>1, <1>3 DEF RequestSound, AnchoredSound, Shown
<1>8. MirrorTyped'
  BY <1>2, <1>4 DEF BackendInv, MirrorTyped
<1>9. MirrorShowsPast'
  <2>1. ASSUME NEW caseId \in CaseIds, mirrorCases'[caseId] # NoCase
        PROVE  \E e \in Trail(caseId)' :
                 /\ e.sequence = mirrorCases'[caseId].auditSequenceNumber
                 /\ e.newState = mirrorCases'[caseId].currentState
    <3>1. CASE caseId = q.caseId
      <4>1. mirrorCases'[caseId] = c
        BY <1>2, <1>4, <3>1 DEF BackendInv, MirrorTyped
      <4> QED
        BY <1>6, <1>7, <3>1, <4>1 DEF Shown, Trail
    <3>2. CASE caseId # q.caseId
      <4>1. mirrorCases'[caseId] = mirrorCases[caseId]
        BY <1>4, <3>2 DEF BackendInv, MirrorTyped
      <4> QED
        BY <1>6, <2>1, <4>1 DEF BackendInv, MirrorShowsPast, Mirrored, Trail
    <3> QED
      BY <3>1, <3>2
  <2>2. mirrorEvents' \subseteq events'
    BY <1>4, <1>6 DEF BackendInv, MirrorShowsPast
  <2> QED
    BY <2>1, <2>2 DEF MirrorShowsPast, Mirrored
<1>10. MirrorDocumentsSound'
  BY <1>4, <1>6 DEF BackendInv, MirrorDocumentsSound
<1> QED
  BY <1>5, <1>8, <1>9, <1>10, EndsSound DEF MirrorSound, mirrorSnapshot

-----------------------------------------------------------------------------
(* The invariant.                                                          *)

\* It holds of the empty ledger and mirror.
LEMMA BackendInvInit == BackendInit => BackendInv
<1> SUFFICES ASSUME BackendInit PROVE BackendInv
  OBVIOUS
<1>1. ChaincodeInv
  BY ChaincodeInvInit DEF BackendInit
<1>2. MirrorTyped /\ MirrorShowsPast /\ MirrorDocumentsSound
  BY DEF BackendInit, MirrorTyped, MirrorShowsPast, MirrorDocumentsSound, Mirrored
<1>3. RequestsSound
  BY IdleSound DEF BackendInit, RequestsSound
<1> QED
  BY <1>1, <1>2, <1>3 DEF BackendInv

\* Every step of a request, and a crash, preserves it.
LEMMA BackendInvNext == BackendInv /\ [BackendNext]_backendVars => BackendInv'
<1> SUFFICES ASSUME BackendInv, [BackendNext]_backendVars PROVE BackendInv'
  OBVIOUS
<1>1. ASSUME LedgerStep \/ UNCHANGED chaincodeVars, UNCHANGED mirror
      PROVE  ChaincodeInv' /\ NothingLost /\ MirrorSound'
  <2>1. ChaincodeInv' /\ events \subseteq events' /\ ReferencesKept
    BY <1>1, LedgerStepKeeps, LedgerUnchangedKeeps DEF BackendInv
  <2>2. NothingLost
    BY <1>1, <2>1
    DEF NothingLost, BackendInv, ChaincodeInv, ReferencesTyped, mirror
  <2> QED
    BY <1>1, <2>1, <2>2, MirrorStaysSound DEF BackendInv, MirrorSound
<1>2. ASSUME NEW r \in Requests,
             ChaincodeInv' /\ NothingLost /\ MirrorSound' /\ GoesOn(r)
      PROVE  BackendInv'
  BY <1>2, BecomesSound DEF BackendInv, MirrorSound, GoesOn
<1>3. CASE crash
  <2>1. UNCHANGED mirror /\ UNCHANGED chaincodeVars
    BY <1>3 DEF crash
  <2>2. RequestsSound'
    BY <1>3, IdleSound DEF crash, RequestsSound
  <2> QED
    BY <1>1, <2>1, <2>2 DEF BackendInv, MirrorSound
<1>4. ASSUME NEW r \in Requests, CaseRequest(r)
      PROVE  BackendInv'
  <2>1. CASE mirrorCaseUpdate(r)
    BY <1>2, <2>1, CaseMirrored
  <2>2. CASE ~mirrorCaseUpdate(r)
    <3>1. UNCHANGED mirror
      BY <1>4, <2>2 DEF CaseRequest, createDraft, readCase, relayCreateCase,
         transitionCase, relayTransition, refuseCase, failCaseUpdate
    <3>2. ChaincodeInv' /\ NothingLost /\ MirrorSound'
      BY <1>1, <1>4, <3>1, BackendLedgerSteps DEF BackendNext
    <3>3. ASSUME NEW caseId \in CaseIds, createDraft(r, caseId)
          PROVE  GoesOn(r)
      <4>1. PICK q \in RequestType : q = [step |-> "createCase", caseId |-> caseId]
        BY DEF RequestType
      <4> QED
        BY <3>3, <4>1 DEF createDraft, GoesOn, RequestSound, AnswerSound,
           UploadSound, AnchoredSound
    <3>4. ASSUME NEW caseId \in CaseIds, readCase(r, caseId)
          PROVE  GoesOn(r)
      <4>1. mirrorCases[caseId].currentState \in WorkflowStates
        BY <3>4 DEF readCase, Mirrored, BackendInv, MirrorTyped, AssuranceCase
      <4>2. PICK q \in RequestType :
              q = [step |-> "transitionCase", caseId |-> caseId,
                   seenState |-> mirrorCases[caseId].currentState]
        BY <4>1 DEF RequestType
      <4> QED
        BY <3>4, <4>2 DEF readCase, GoesOn, RequestSound, AnswerSound,
           UploadSound, AnchoredSound
    <3>5. ASSUME NEW actor \in Actors, relayCreateCase(r, actor)
          PROVE  GoesOn(r)
      BY <3>5, CreationGoesOn
    <3>6. ASSUME NEW rule \in TRANSITIONS, NEW actor \in Actors,
                 NEW ids \in SUBSET DocumentIds, NEW justified \in BOOLEAN,
                 transitionCase(r, rule, actor, ids, justified)
          PROVE  GoesOn(r)
      BY <3>6, TransitionGoesOn DEF transitionCase
    <3>7. ASSUME refuseCase(r) \/ failCaseUpdate(r)
          PROVE  GoesOn(r)
      BY <3>7, EndsSound DEF refuseCase, failCaseUpdate
    <3>8. GoesOn(r)
      BY <1>4, <2>2, <3>3, <3>4, <3>5, <3>6, <3>7 DEF CaseRequest
    <3> QED
      BY <1>2, <3>2, <3>8
  <2> QED
    BY <2>1, <2>2
<1>5. ASSUME NEW r \in Requests, UploadRequest(r)
      PROVE  BackendInv'
  <2>1. CASE mirrorDocument(r) \/ mirrorSnapshot(r)
    BY <1>2, <2>1, DocumentMirrored, SnapshotMirrored
  <2>2. CASE ~(mirrorDocument(r) \/ mirrorSnapshot(r))
    <3>1. UNCHANGED mirror
      BY <1>5, <2>2 DEF UploadRequest, readForUpload, storeObject, anchor,
         refuseAnchor, failStore, failUpload
    <3>2. ChaincodeInv' /\ NothingLost /\ MirrorSound'
      BY <1>1, <1>5, <3>1, BackendLedgerSteps DEF BackendNext
    <3>3. ASSUME refuseAnchor(r) \/ failStore(r) \/ failUpload(r)
          PROVE  GoesOn(r)
      BY <3>3, EndsSound DEF refuseAnchor, failStore, failUpload, deleteObject
    <3>4. GoesOn(r)
      BY <1>5, <2>2, <3>2, <3>3, UploadGoesOn, AnchoringGoesOn DEF UploadRequest
    <3> QED
      BY <1>2, <3>2, <3>4
  <2> QED
    BY <2>1, <2>2
<1>6. CASE UNCHANGED backendVars
  <2>1. UNCHANGED mirror /\ UNCHANGED chaincodeVars /\ UNCHANGED requests
    BY <1>6 DEF backendVars
  <2>2. ChaincodeInv' /\ NothingLost /\ MirrorSound'
    BY <1>1, <2>1
  <2>3. \A q \in RequestType : RequestSound(q) => RequestSound(q)'
    BY <2>2, RequestStaysSound
  <2>4. RequestsSound'
    <3>1. requests' \in [Requests -> RequestType]
      BY <2>1 DEF BackendInv, RequestsSound
    <3>2. ASSUME NEW r \in Requests PROVE RequestSound(requests[r])'
      <4>1. PICK q \in RequestType :
              q = requests[r] /\ q = requests'[r] /\ RequestSound(q)
        BY <2>1 DEF BackendInv, RequestsSound
      <4>2. RequestSound(q)'
        BY <2>3, <4>1
      <4> QED
        BY <4>1, <4>2
    <3> QED
      BY <3>1, <3>2 DEF RequestsSound
  <2> QED
    BY <2>2, <2>4 DEF BackendInv, MirrorSound
<1> QED
  BY <1>3, <1>4, <1>5, <1>6 DEF BackendNext

\* It holds in every reachable state.
LEMMA BackendInvariance == BackendSpec => []BackendInv
BY BackendInvInit, BackendInvNext, PTL DEF BackendSpec

-----------------------------------------------------------------------------
(* What holds whatever fails and however requests interleave.              *)

\* The mirror never invents history, although answers are mirrored late, out
\* of order or not at all (persistCaseUpdate, persistCaseSnapshot).
THEOREM MirrorHistoryCorrect == BackendSpec => []MirrorShowsPast
<1>1. BackendInv => MirrorShowsPast
  BY DEF BackendInv
<1> QED
  BY <1>1, BackendInvariance, PTL

\* A mirrored document is the ledger's, and an active one of the ledger never
\* shows as superseded (persistDocumentUpdate).
THEOREM MirrorDocumentsCorrect == BackendSpec => []MirrorDocumentsSound
<1>1. BackendInv => MirrorDocumentsSound
  BY DEF BackendInv
<1> QED
  BY <1>1, BackendInvariance, PTL

\* The ledger behind the backend keeps what is proved of the chaincode, although
\* the backend derives the document types and submits what it read long ago.
THEOREM LedgerBehindBackend ==
  BackendSpec => [](/\ StateIndexExact /\ TrailGapFree /\ TrailReplays
                    /\ InformationRequestResumable /\ AmendmentKeepsBaseline
                    /\ IssuanceMatchesState /\ ApprovalIsEndorsed
                    /\ ReviewPrecedesGrant /\ CaseDocumentsExact
                    /\ ActiveDocumentsListed /\ VersionChainSound)
<1>1. BackendInv =>
        /\ StateIndexExact /\ TrailGapFree /\ TrailReplays
        /\ InformationRequestResumable /\ AmendmentKeepsBaseline
        /\ IssuanceMatchesState /\ ApprovalIsEndorsed
        /\ ReviewPrecedesGrant /\ CaseDocumentsExact
        /\ ActiveDocumentsListed /\ VersionChainSound
  BY DEF BackendInv, ChaincodeInv, IInv, RecordInv, InformationRequestResumable,
         AmendmentKeepsBaseline, IssuanceMatchesState, ApprovalIsEndorsed,
         ReviewPrecedesGrant
<1> QED
  BY <1>1, BackendInvariance, PTL

\* To the ledger the backend is a client like any other: whatever its requests
\* read long ago, and wherever they fail, each submits a transaction or none.
THEOREM BackendIsClient == BackendSpec => LedgerSpec
<1>1. BackendInit => ChaincodeInit
  BY DEF BackendInit
<1>2. BackendInv /\ [BackendNext]_backendVars => [LedgerStep]_chaincodeVars
  BY BackendLedgerSteps DEF backendVars
<1> QED
  BY <1>1, <1>2, BackendInvariance, PTL DEF BackendSpec, LedgerSpec

\* Through the backend, too, no assurance is issued and no substantive amendment
\* concluded without a review of its own.
THEOREM BackendInstrumentsReviewed ==
  BackendSpec => [](VersionCountsInstruments /\ EveryInstrumentReviewed)
BY BackendIsClient, LedgerHistoryCorrect, PTL

\* Behind the backend the ledger shows the lifecycle it promises.
THEOREM BackendImplementsLifecycle == BackendSpec => LifecycleSpec
BY BackendIsClient, LedgerImplementsLifecycle, PTL

-----------------------------------------------------------------------------
(* Without failures: the files of anchored documents.                      *)

BeforeAnchoring == {"storeObject", "anchor"}

\* What an upload may count on: its identifier is not anchored and, once it
\* anchors, the file is stored.
FileSound(q) ==
  q.step \in BeforeAnchoring =>
    /\ documents[q.documentId] = NoDocument
    /\ q.step = "anchor" => q.documentId \in objects

\* No two uploads are about one identifier.
UploadsApart ==
  \A r, s \in Requests :
    /\ r # s
    /\ requests[r].step \in BeforeAnchoring
    /\ requests[s].step \in BeforeAnchoring
    => requests[r].documentId # requests[s].documentId

FilesInv ==
  /\ ~MayFail
  /\ BackendInv
  /\ AnchoredFileKept
  /\ UploadsApart
  /\ \A r \in Requests : FileSound(requests[r])

\* A request that is not before an anchoring changes nothing of this.
LEMMA OtherRequestKeepsFiles ==
  ASSUME FilesInv, BackendInv', NEW r \in Requests, NEW q, Become(r, q),
         q.step \notin BeforeAnchoring,
         UNCHANGED documents, objects \subseteq objects'
  PROVE  FilesInv'
<1>1. \A s \in Requests :
        requests'[s] = IF s = r THEN q ELSE requests[s]
  BY DEF Become, FilesInv, BackendInv, RequestsSound
<1>2. AnchoredFileKept'
  BY DEF FilesInv, AnchoredFileKept
<1>3. UploadsApart'
  BY <1>1 DEF FilesInv, UploadsApart
<1>4. (\A s \in Requests : FileSound(requests[s]))'
  BY <1>1 DEF FilesInv, FileSound
<1> QED
  BY <1>2, <1>3, <1>4 DEF FilesInv

\* No request about a case is before an anchoring.
LEMMA CaseRequestKeepsFiles ==
  ASSUME FilesInv, BackendInv', NEW r \in Requests, CaseRequest(r)
  PROVE  FilesInv'
<1>1. UNCHANGED documents /\ UNCHANGED objects
  BY DEF CaseRequest, createDraft, readCase, relayCreateCase, transitionCase,
     relayTransition, refuseCase, mirrorCaseUpdate, failCaseUpdate, chaincodeVars
<1>2. Idle.step \notin BeforeAnchoring
  BY DEF Idle, BeforeAnchoring
<1>3. \A caseId, caseRecord, event, endorsers :
        Answer(caseId, caseRecord, event, endorsers).step \notin BeforeAnchoring
  BY DEF Answer, BeforeAnchoring
<1>4. \E q : Become(r, q) /\ q.step \notin BeforeAnchoring
  <2>1. ASSUME NEW caseId \in CaseIds,
               createDraft(r, caseId) \/ readCase(r, caseId)
        PROVE  \E q : Become(r, q) /\ q.step \notin BeforeAnchoring
    BY <2>1 DEF createDraft, readCase, BeforeAnchoring
  <2>2. ASSUME NEW actor \in Actors, relayCreateCase(r, actor)
        PROVE  \E q : Become(r, q) /\ q.step \notin BeforeAnchoring
    BY <1>2, <1>3, <2>2 DEF relayCreateCase
  <2>3. ASSUME NEW rule \in TRANSITIONS, NEW actor \in Actors,
               NEW ids \in SUBSET DocumentIds, NEW justified \in BOOLEAN,
               transitionCase(r, rule, actor, ids, justified)
        PROVE  \E q : Become(r, q) /\ q.step \notin BeforeAnchoring
    BY <1>2, <1>3, <2>3 DEF transitionCase, relayTransition
  <2>4. ASSUME refuseCase(r) \/ mirrorCaseUpdate(r) \/ failCaseUpdate(r)
        PROVE  \E q : Become(r, q) /\ q.step \notin BeforeAnchoring
    BY <1>2, <2>4 DEF refuseCase, mirrorCaseUpdate, failCaseUpdate
  <2> QED
    BY <2>1, <2>2, <2>3, <2>4 DEF CaseRequest
<1> QED
  BY <1>1, <1>4, OtherRequestKeepsFiles

\* An upload starts with an identifier of its own.
LEMMA ReadKeepsFiles ==
  ASSUME FilesInv, BackendInv', NEW r \in Requests, NEW caseId \in CaseIds,
         NEW documentId \in DocumentIds,
         NEW superseded \in DocumentIds \cup {Undefined},
         readForUpload(r, caseId, documentId, superseded)
  PROVE  FilesInv'
<1>1. PICK q :
        /\ Become(r, q)
        /\ q.step = "storeObject"
        /\ q.documentId = documentId
  BY DEF readForUpload
<1>2. \A s \in Requests :
        requests'[s] = IF s = r THEN q ELSE requests[s]
  BY <1>1 DEF Become, FilesInv, BackendInv, RequestsSound
<1>3. /\ documents[documentId] = NoDocument
      /\ UNCHANGED documents /\ UNCHANGED objects
  BY DEF readForUpload, chaincodeVars
<1>4. \A s \in Requests :
        requests[s].step \in BeforeAnchoring => requests[s].documentId # documentId
  BY DEF readForUpload, Uploading, BeforeAnchoring
<1>5. AnchoredFileKept'
  BY <1>3 DEF FilesInv, AnchoredFileKept
<1>6. UploadsApart'
  BY <1>1, <1>2, <1>4 DEF FilesInv, UploadsApart
<1>7. (\A s \in Requests : FileSound(requests[s]))'
  BY <1>1, <1>2, <1>3 DEF FilesInv, FileSound
<1> QED
  BY <1>5, <1>6, <1>7 DEF FilesInv

\* The file is stored before the upload anchors.
LEMMA StoreKeepsFiles ==
  ASSUME FilesInv, BackendInv', NEW r \in Requests, storeObject(r)
  PROVE  FilesInv'
<1>1. PICK p \in RequestType : p = requests[r] /\ p.step = "storeObject"
  BY DEF FilesInv, BackendInv, RequestsSound, storeObject
<1>2. PICK q :
        /\ Become(r, q)
        /\ q.step = "anchor"
        /\ q.documentId = p.documentId
  BY <1>1 DEF storeObject, RequestType
<1>3. \A s \in Requests :
        requests'[s] = IF s = r THEN q ELSE requests[s]
  BY <1>2 DEF Become, FilesInv, BackendInv, RequestsSound
<1>4. UNCHANGED documents /\ objects' = objects \cup {p.documentId}
  BY <1>1 DEF storeObject, chaincodeVars
<1>5. AnchoredFileKept'
  BY <1>4 DEF FilesInv, AnchoredFileKept
<1>6. UploadsApart'
  BY <1>1, <1>2, <1>3 DEF FilesInv, UploadsApart, BeforeAnchoring
<1>7. (\A s \in Requests : FileSound(requests[s]))'
  BY <1>1, <1>2, <1>3, <1>4 DEF FilesInv, FileSound, BeforeAnchoring
<1> QED
  BY <1>5, <1>6, <1>7 DEF FilesInv

\* What is anchored is stored, and no other upload is about it.
LEMMA AnchorKeepsFiles ==
  ASSUME FilesInv, BackendInv', NEW r \in Requests,
         NEW documentType \in AnchoredTypes, NEW sha256Hash \in Hashes,
         NEW actor \in Actors, anchor(r, documentType, sha256Hash, actor)
  PROVE  FilesInv'
<1>1. PICK p \in RequestType : p = requests[r] /\ p.step = "anchor"
  BY DEF FilesInv, BackendInv, RequestsSound, anchor
<1>2. /\ documents[p.documentId] = NoDocument
      /\ p.documentId \in objects
  BY <1>1 DEF FilesInv, FileSound, BeforeAnchoring
<1>3. /\ UNCHANGED objects
      /\ \E q : Become(r, q) /\ q.step \notin BeforeAnchoring
  BY <1>1 DEF FilesInv, anchor, BeforeAnchoring
<1>4. PICK q : Become(r, q) /\ q.step \notin BeforeAnchoring
  BY <1>3
<1>5. \A s \in Requests :
        requests'[s] = IF s = r THEN q ELSE requests[s]
  BY <1>4 DEF Become, FilesInv, BackendInv, RequestsSound
<1>6. \A d \in DocumentIds \ {p.documentId} :
        documents'[d] = NoDocument <=> documents[d] = NoDocument
  <2>1. /\ p.documentId \in DocumentIds
        /\ p.superseded \in DocumentIds \cup {Undefined}
        /\ Anchors(p.documentId, AnchoredBy(p, documentType, sha256Hash), p.superseded)
    BY <1>1, RequestAnchors DEF FilesInv
  <2>2. /\ ReferencesKept
        /\ documents \in [DocumentIds -> Documents!DocumentReference \cup {NoDocument}]
    <3>1. LedgerStep
      BY <1>1, RequestAnchors DEF FilesInv, LedgerStep
    <3> QED
      BY <3>1, LedgerStepKeeps
      DEF FilesInv, BackendInv, ChaincodeInv, ReferencesTyped
  <2>3. ASSUME NEW d \in DocumentIds, documents[d] # NoDocument
        PROVE  documents'[d] # NoDocument
    <3>1. documents[d] \in Documents!DocumentReference
      BY <2>2, <2>3
    <3>2. [documents[d] EXCEPT !.isActive = FALSE] \in Documents!DocumentReference
      BY <3>1 DEF Documents!DocumentReference
    <3> QED
      BY <2>2, <2>3, <3>2, NoDocumentAssumption DEF ReferencesKept
  <2>4. \A d \in DocumentIds \ {p.documentId} :
          d # p.superseded => documents'[d] = documents[d]
    BY <2>1, <2>2 DEF Anchors
  <2>5. p.superseded # Undefined => documents[p.superseded] # NoDocument
    BY <2>1 DEF Anchors, Anchored
  <2> QED
    BY <2>1, <2>3, <2>4, <2>5, ChaincodeAssumption
<1>7. AnchoredFileKept'
  BY <1>2, <1>3, <1>6 DEF FilesInv, AnchoredFileKept
<1>8. UploadsApart'
  BY <1>4, <1>5 DEF FilesInv, UploadsApart
<1>9. (\A s \in Requests : FileSound(requests[s]))'
  <2> SUFFICES ASSUME NEW s \in Requests, requests'[s].step \in BeforeAnchoring
               PROVE  /\ documents'[requests'[s].documentId] = NoDocument
                      /\ requests'[s].step = "anchor" =>
                           requests'[s].documentId \in objects'
    BY DEF FileSound
  <2>1. s # r /\ requests'[s] = requests[s]
    BY <1>4, <1>5
  <2>2. requests[s].documentId # p.documentId
    BY <1>1, <2>1 DEF FilesInv, UploadsApart, BeforeAnchoring
  <2>3. requests[s].documentId \in DocumentIds
    BY <2>1, RequestFields DEF BeforeAnchoring, FilesInv, BackendInv, RequestsSound
  <2> QED
    BY <1>3, <1>6, <2>1, <2>2, <2>3 DEF FilesInv, FileSound
<1> QED
  BY <1>7, <1>8, <1>9 DEF FilesInv

\* A refused upload deletes the file of an identifier that is not anchored.
LEMMA RefusalKeepsFiles ==
  ASSUME FilesInv, BackendInv', NEW r \in Requests, refuseAnchor(r)
  PROVE  FilesInv'
<1>1. /\ requests[r].step = "anchor"
      /\ objects' = objects \ {requests[r].documentId}
      /\ Become(r, Idle)
      /\ UNCHANGED documents
  BY DEF FilesInv, refuseAnchor, deleteObject, chaincodeVars
<1>2. documents[requests[r].documentId] = NoDocument
  BY <1>1 DEF FilesInv, FileSound, BeforeAnchoring
<1>3. Idle.step \notin BeforeAnchoring
  BY DEF Idle, BeforeAnchoring
<1>4. \A s \in Requests :
        requests'[s] = IF s = r THEN Idle ELSE requests[s]
  BY <1>1 DEF Become, FilesInv, BackendInv, RequestsSound
<1>5. AnchoredFileKept'
  BY <1>1, <1>2 DEF FilesInv, AnchoredFileKept
<1>6. UploadsApart'
  BY <1>3, <1>4 DEF FilesInv, UploadsApart
<1>7. (\A s \in Requests : FileSound(requests[s]))'
  BY <1>1, <1>3, <1>4 DEF FilesInv, FileSound, UploadsApart, BeforeAnchoring
<1> QED
  BY <1>5, <1>6, <1>7 DEF FilesInv

\* Every step of a backend that does not fail keeps the files.
LEMMA FilesInvNext ==
  FilesInv /\ BackendInv' /\ [BackendNext]_backendVars => FilesInv'
<1> SUFFICES ASSUME FilesInv, BackendInv', [BackendNext]_backendVars
             PROVE  FilesInv'
  OBVIOUS
<1>1. ASSUME NEW r \in Requests, UploadRequest(r)
      PROVE  FilesInv'
  <2>1. CASE mirrorDocument(r)
    <3>1. PICK p \in RequestType : p = requests[r] /\ p.step = "persistDocument"
      BY <2>1 DEF FilesInv, BackendInv, RequestsSound, mirrorDocument
    <3>2. PICK q : Become(r, q) /\ q.step = "persistSnapshot"
      BY <2>1, <3>1 DEF mirrorDocument, RequestType
    <3>3. UNCHANGED documents /\ UNCHANGED objects
      BY <2>1 DEF mirrorDocument, chaincodeVars
    <3> QED
      BY <3>2, <3>3, OtherRequestKeepsFiles DEF BeforeAnchoring
  <2>2. CASE mirrorSnapshot(r)
    <3>1. UNCHANGED documents /\ UNCHANGED objects /\ Become(r, Idle)
      BY <2>2 DEF mirrorSnapshot, chaincodeVars
    <3>2. Idle.step \notin BeforeAnchoring
      BY DEF Idle, BeforeAnchoring
    <3> QED
      BY <3>1, <3>2, OtherRequestKeepsFiles
  <2>3. ~failStore(r) /\ ~failUpload(r)
    BY DEF FilesInv, failStore, failUpload
  <2> QED
    BY <1>1, <2>1, <2>2, <2>3, ReadKeepsFiles, StoreKeepsFiles,
       AnchorKeepsFiles, RefusalKeepsFiles DEF UploadRequest
<1>2. CASE crash
  BY <1>2 DEF crash, FilesInv
<1>3. CASE UNCHANGED backendVars
  BY <1>3 DEF backendVars, chaincodeVars, FilesInv, AnchoredFileKept,
     UploadsApart, FileSound
<1> QED
  BY <1>1, <1>2, <1>3, CaseRequestKeepsFiles DEF BackendNext

\* As long as nothing fails, whatever requests run at once, the file of an
\* anchored document is in the store: only an upload whose anchoring was refused
\* deletes a file, its own (uploadDocument).
THEOREM AnchoredFilesCorrect == ~MayFail /\ BackendSpec => []AnchoredFileKept
<1>1. ~MayFail /\ BackendInit => FilesInv
  <2> SUFFICES ASSUME ~MayFail, BackendInit PROVE FilesInv
    OBVIOUS
  <2>1. BackendInv
    BY BackendInvInit
  <2>2. \A r \in Requests : requests[r].step \notin BeforeAnchoring
    BY DEF BackendInit, Idle, BeforeAnchoring
  <2>3. \A d \in DocumentIds : documents[d] = NoDocument
    BY DEF BackendInit, ChaincodeInit, Documents!Init
  <2> QED
    BY <2>1, <2>2, <2>3 DEF FilesInv, AnchoredFileKept, UploadsApart, FileSound
<1>2. FilesInv => AnchoredFileKept
  BY DEF FilesInv
<1> QED
  BY <1>1, <1>2, BackendInvariance, FilesInvNext, PTL DEF BackendSpec

-----------------------------------------------------------------------------
(* One request at a time: what is not mirrored yet is what the request     *)
(* still has to write.                                                     *)

InSync ==
  /\ mirrorCases = cases
  /\ mirrorEvents = events
  /\ mirrorDocuments = documents

Pending == {"persistCaseUpdate", "persistDocument", "persistSnapshot"}

\* What the request read is still so.
ReadsCurrent(q) ==
  /\ q.step \notin Pending => InSync
  /\ q.step = "transitionCase" =>
       /\ Mirrored(q.caseId)
       /\ q.seenState = mirrorCases[q.caseId].currentState
  /\ q.step \in BeforeAnchoring => q.currentCase = mirrorCases[q.caseId]

\* What the request has to mirror is what the mirror lacks.
AnswerPending(q) ==
  q.step = "persistCaseUpdate" =>
    /\ cases = [mirrorCases EXCEPT ![q.caseId] = q.caseRecord]
    /\ events = persistEvent(q.event)
    /\ documents = mirrorDocuments
    /\ q.event.previousState = "under_foreign_review" =>
         "ForeignNuclearRegulatorMSP" \in q.endorsers

SnapshotPending(q) ==
  q.step \in {"persistDocument", "persistSnapshot"} =>
    /\ cases = [mirrorCases EXCEPT ![q.caseId] = updatedCase(q)]
    /\ events = mirrorEvents
    /\ q.step = "persistSnapshot" => documents = mirrorDocuments

DocumentPending(q) ==
  q.step = "persistDocument" =>
    documents =
      [d \in DocumentIds |->
         CASE d = q.documentId -> q.reference
           [] d = q.reference.supersedesDocumentId
                -> [mirrorDocuments[d] EXCEPT !.isActive = FALSE]
           [] OTHER -> mirrorDocuments[d]]

InStep(q) ==
  ReadsCurrent(q) /\ AnswerPending(q) /\ SnapshotPending(q) /\ DocumentPending(q)

SerialInv ==
  /\ ~MayFail
  /\ \E r : Requests = {r}
  /\ BackendInv
  /\ \A r \in Requests : InStep(requests[r])

\* The request that takes a step is the only one there is.
LEMMA SerialGoesOn ==
  ASSUME SerialInv, BackendInv', NEW r \in Requests, NEW q, Become(r, q),
         InStep(q)'
  PROVE  SerialInv'
<1>1. ASSUME NEW s \in Requests PROVE InStep(requests[s])'
  <2>1. s = r
    BY DEF SerialInv
  <2>2. q = requests'[s]
    BY <2>1 DEF Become, SerialInv, BackendInv, RequestsSound
  <2> QED
    BY <2>2
<1> QED
  BY <1>1 DEF SerialInv

\* The mirror stays in step while neither side moves.
LEMMA StaysInSync ==
  ASSUME InSync, UNCHANGED chaincodeVars, UNCHANGED mirror
  PROVE  InSync'
BY DEF InSync, chaincodeVars, vars, mirror

\* A request that has nothing to write and nothing to rely on is in step.
LEMMA InSyncInStep ==
  ASSUME NEW q, InSync',
         q.step \notin Pending \cup BeforeAnchoring \cup {"transitionCase"}
  PROVE  InStep(q)'
BY DEF InStep, ReadsCurrent, AnswerPending, SnapshotPending, DocumentPending,
       Pending, BeforeAnchoring

\* A request may end once the mirror is in step.
LEMMA SerialEnds ==
  ASSUME SerialInv, BackendInv', NEW r \in Requests, Become(r, Idle), InSync'
  PROVE  SerialInv'
<1>1. Idle.step \notin Pending \cup BeforeAnchoring \cup {"transitionCase"}
  BY DEF Idle, Pending, BeforeAnchoring
<1>2. InStep(Idle)'
  BY <1>1, InSyncInStep
<1> QED
  BY <1>2, SerialGoesOn

\* What a request reads is the ledger's.
LEMMA SerialReads ==
  ASSUME SerialInv, BackendInv', NEW r \in Requests,
         \/ \E caseId \in CaseIds : createDraft(r, caseId) \/ readCase(r, caseId)
         \/ \E caseId \in CaseIds, documentId \in DocumentIds,
              superseded \in DocumentIds \cup {Undefined} :
             readForUpload(r, caseId, documentId, superseded)
         \/ storeObject(r)
  PROVE  SerialInv'
<1>1. requests[r].step \notin Pending
  <2>1. requests[r] = Idle \/ requests[r].step = "storeObject"
    BY DEF createDraft, readCase, readForUpload, storeObject
  <2> QED
    BY <2>1 DEF Idle, Pending
<1>2. InSync /\ UNCHANGED chaincodeVars /\ UNCHANGED mirror
  BY <1>1 DEF SerialInv, InStep, ReadsCurrent, createDraft, readCase,
     readForUpload, storeObject
<1>3. InSync' /\ UNCHANGED mirrorCases
  BY <1>2, StaysInSync DEF mirror
<1>4. ASSUME NEW caseId \in CaseIds, createDraft(r, caseId)
      PROVE  SerialInv'
  <2>1. PICK q : q = [step |-> "createCase", caseId |-> caseId]
    OBVIOUS
  <2>2. q.step \notin Pending \cup BeforeAnchoring \cup {"transitionCase"}
    BY <2>1 DEF Pending, BeforeAnchoring
  <2>3. InStep(q)'
    BY <1>3, <2>2, InSyncInStep
  <2> QED
    BY <1>4, <2>1, <2>3, SerialGoesOn DEF createDraft
<1>5. ASSUME NEW caseId \in CaseIds, readCase(r, caseId)
      PROVE  SerialInv'
  <2>1. PICK q : q = [step |-> "transitionCase", caseId |-> caseId,
                      seenState |-> mirrorCases[caseId].currentState]
    OBVIOUS
  <2>2. Mirrored(caseId) /\ Become(r, q)
    BY <1>5, <2>1 DEF readCase
  <2>3. InStep(q)'
    BY <1>3, <2>1, <2>2
    DEF InStep, ReadsCurrent, AnswerPending, SnapshotPending, DocumentPending,
        Pending, BeforeAnchoring, Mirrored
  <2> QED
    BY <2>2, <2>3, SerialGoesOn
<1>6. ASSUME NEW caseId \in CaseIds, NEW documentId \in DocumentIds,
             NEW superseded \in DocumentIds \cup {Undefined},
             readForUpload(r, caseId, documentId, superseded)
      PROVE  SerialInv'
  <2>1. PICK q :
          /\ Become(r, q)
          /\ q.step = "storeObject"
          /\ q.caseId = caseId
          /\ q.currentCase = mirrorCases[caseId]
    BY <1>6 DEF readForUpload
  <2>2. InStep(q)'
    BY <1>3, <2>1
    DEF InStep, ReadsCurrent, AnswerPending, SnapshotPending, DocumentPending,
        Pending, BeforeAnchoring
  <2> QED
    BY <2>1, <2>2, SerialGoesOn
<1>7. ASSUME storeObject(r)
      PROVE  SerialInv'
  <2>1. PICK p \in RequestType :
          p = requests[r] /\ p.step = "storeObject" /\ InStep(p)
    BY <1>7 DEF SerialInv, BackendInv, RequestsSound, storeObject
  <2>2. PICK q :
          /\ Become(r, q)
          /\ q.step = "anchor"
          /\ q.caseId = p.caseId
          /\ q.currentCase = p.currentCase
    BY <1>7, <2>1 DEF storeObject, RequestType
  <2>3. InStep(q)'
    BY <1>3, <2>1, <2>2
    DEF InStep, ReadsCurrent, AnswerPending, SnapshotPending, DocumentPending,
        Pending, BeforeAnchoring
  <2> QED
    BY <2>2, <2>3, SerialGoesOn
<1> QED
  BY <1>4, <1>5, <1>6, <1>7

\* An answer that is still to be mirrored.
LEMMA SerialAnswers ==
  ASSUME SerialInv, BackendInv', NEW r \in Requests, NEW caseId \in CaseIds,
         NEW caseRecord, NEW event, NEW endorsers,
         Become(r, Answer(caseId, caseRecord, event, endorsers)),
         requests[r].step \notin Pending,
         cases' = [cases EXCEPT ![caseId] = caseRecord],
         appendEvent(event), UNCHANGED documents, UNCHANGED mirror,
         event.previousState = "under_foreign_review" =>
           "ForeignNuclearRegulatorMSP" \in endorsers
  PROVE  SerialInv'
<1>1. PICK q : q = Answer(caseId, caseRecord, event, endorsers)
  OBVIOUS
<1>2. InSync
  BY DEF SerialInv, InStep, ReadsCurrent
<1>3. cases' = [mirrorCases' EXCEPT ![caseId] = caseRecord]
  BY <1>2 DEF InSync, mirror
<1>4. events' = persistEvent(event)'
  BY <1>2 DEF InSync, appendEvent, persistEvent, mirror
<1>5. documents' = mirrorDocuments'
  BY <1>2 DEF InSync, mirror
<1>6. /\ q.step = "persistCaseUpdate" /\ q.caseId = caseId
      /\ q.caseRecord = caseRecord /\ q.event = event
      /\ q.endorsers = endorsers
  BY <1>1 DEF Answer
<1>7. AnswerPending(q)'
  BY <1>3, <1>4, <1>5, <1>6 DEF AnswerPending
<1>8. InStep(q)'
  BY <1>6, <1>7 DEF InStep, ReadsCurrent, SnapshotPending, DocumentPending,
     Pending, BeforeAnchoring
<1> QED
  BY <1>1, <1>8, SerialGoesOn

\* The actions open to a case before the foreign regulator.
LEMMA ForeignLaneActions ==
  ASSUME NEW rule \in TRANSITIONS, "under_foreign_review" \in rule.from
  PROVE  rule.action \in ForeignActions \cup SharedActions
BY DEF TRANSITIONS, Rule, SubmitCaseRule, RecordDomesticReviewRule,
       RequestMoreInformationRule, RespondToInformationRequestRule,
       ForwardToCoordinationRule, ForwardToForeignAuthorityRule,
       RecordForeignReviewRule, ApproveCaseRule, RejectCaseRule,
       InitiateNonSubstantiveAmendmentRule, InitiateSubstantiveAmendmentRule,
       IssueAssuranceRule, AmendAssuranceRule, RejectAmendmentRule,
       RevokeAssuranceRule, CloseCaseRule, InForceStates, ReviewLanes,
       ForeignActions, SharedActions

\* A commit is answered with what the mirror lacks.
LEMMA SerialCommits ==
  ASSUME SerialInv, BackendInv', NEW r \in Requests,
         \/ \E actor \in Actors : relayCreateCase(r, actor)
         \/ \E rule \in TRANSITIONS, actor \in Actors, ids \in SUBSET DocumentIds,
              justified \in BOOLEAN : transitionCase(r, rule, actor, ids, justified)
  PROVE  SerialInv'
<1>1. ASSUME NEW actor \in Actors, relayCreateCase(r, actor)
      PROVE  SerialInv'
  <2> DEFINE caseId == requests[r].caseId
             event == [caseId |-> caseId, sequence |-> 1,
                       actionType |-> "create_case",
                       previousState |-> Undefined, newState |-> "draft"]
             endorsers == resolveWorkflowEndorsers("create_case", actor, Undefined)
  <2>1. caseId \in CaseIds /\ createCase(caseId, actor)
    BY <1>1, RequestCreates DEF SerialInv
  <2>2. /\ Become(r, Answer(caseId, DraftCase, event, endorsers))
        /\ requests[r].step \notin Pending
        /\ UNCHANGED documents /\ UNCHANGED mirror
    BY <1>1 DEF relayCreateCase, SerialInv, Pending
  <2>3. /\ cases' = [cases EXCEPT ![caseId] = DraftCase]
        /\ appendEvent(event)
    BY <2>1 DEF createCase, putCase
  <2>4. event.previousState # "under_foreign_review"
    BY DEF Undefined
  <2> HIDE DEF event, endorsers, caseId
  <2> QED
    BY <2>1, <2>2, <2>3, <2>4, SerialAnswers
<1>2. ASSUME NEW rule \in TRANSITIONS, NEW actor \in Actors, NEW types,
             NEW ids \in SUBSET DocumentIds, NEW justified \in BOOLEAN,
             relayTransition(r, rule, actor, types, ids, justified)
      PROVE  SerialInv'
  <2> DEFINE caseId == requests[r].caseId
             given == PlanArguments(rule.action, ids)
             c == cases[caseId]
             d == applyTransition(c, rule, actor, given)
             event == [caseId |-> caseId, sequence |-> d.auditSequenceNumber,
                       actionType |-> rule.action,
                       previousState |-> c.currentState,
                       newState |-> d.currentState]
             endorsers == resolveWorkflowEndorsers(rule.action, actor,
                                                   requests[r].seenState)
  <2>1. /\ caseId \in CaseIds
        /\ performTransition(caseId, rule, actor,
                             PlanArguments(rule.action, types), given, justified)
    BY <1>2, RequestTransits DEF SerialInv
  <2> HIDE DEF given
  <2>2. cases' = [cases EXCEPT ![caseId] = d] /\ appendEvent(event)
    BY <2>1 DEF performTransition, putCase
  <2>3. cases'[caseId] = d
    BY <2>1, <2>2
    DEF SerialInv, BackendInv, ChaincodeInv, IInv, TypeOK
  <2>4. /\ Become(r, Answer(caseId, d, event, endorsers))
        /\ requests[r].step = "transitionCase"
        /\ UNCHANGED documents /\ UNCHANGED mirror
    BY <1>2, <2>3 DEF relayTransition, SerialInv
  <2>5. requests[r].step \notin Pending
    BY <2>4 DEF Pending
  <2>6. requests[r].seenState = c.currentState
    BY <2>4, <2>5 DEF SerialInv, InStep, ReadsCurrent, InSync
  <2>7. c.currentState \in rule.from
    BY <2>1 DEF performTransition, evaluateTransition
  <2>8. event.previousState = c.currentState
    OBVIOUS
  <2>9. event.previousState = "under_foreign_review" =>
          "ForeignNuclearRegulatorMSP" \in endorsers
    BY <2>6, <2>7, <2>8, ForeignLaneActions
    DEF resolveWorkflowEndorsers, FOREIGN_ENDORSERS
  <2> HIDE DEF event, endorsers, caseId, d
  <2> QED
    BY <2>1, <2>2, <2>4, <2>5, <2>9, SerialAnswers
<1> QED
  BY <1>1, <1>2 DEF transitionCase

\* An anchoring is answered with what the mirror lacks.
LEMMA SerialAnchors ==
  ASSUME SerialInv, BackendInv', NEW r \in Requests,
         NEW documentType \in AnchoredTypes, NEW sha256Hash \in Hashes,
         NEW actor \in Actors, anchor(r, documentType, sha256Hash, actor)
  PROVE  SerialInv'
<1> DEFINE reference == AnchoredBy(requests[r], documentType, sha256Hash)
<1>1. PICK p \in RequestType :
        p = requests[r] /\ p.step = "anchor" /\ InStep(p)
  BY DEF SerialInv, BackendInv, RequestsSound, anchor
<1>2. /\ reference.supersedesDocumentId = p.superseded
      /\ reference.caseId = p.caseId
  BY <1>1 DEF AnchoredBy
<1>3. /\ Become(r, [step |-> "persistDocument", caseId |-> p.caseId,
                    documentId |-> p.documentId, reference |-> reference,
                    currentCase |-> p.currentCase])
      /\ UNCHANGED mirror
  BY <1>1 DEF anchor, AnchoredBy, SerialInv
<1>4. /\ p.documentId \in DocumentIds
      /\ p.superseded \in DocumentIds \cup {Undefined}
      /\ Anchors(p.documentId, reference, p.superseded)
  BY <1>1, RequestAnchors DEF SerialInv
<1> HIDE DEF reference
<1>5. PICK q :
        /\ Become(r, q)
        /\ q.step = "persistDocument"
        /\ q.caseId = p.caseId
        /\ q.documentId = p.documentId
        /\ q.reference = reference
        /\ q.currentCase = p.currentCase
  BY <1>3
<1>6. InSync /\ p.currentCase = cases[p.caseId]
  BY <1>1 DEF InStep, ReadsCurrent, InSync, Pending, BeforeAnchoring
<1>7. /\ mirrorCases' = cases /\ mirrorEvents' = events
      /\ mirrorDocuments' = documents
  BY <1>3, <1>6 DEF InSync, mirror
<1>8. /\ events' = mirrorEvents'
      /\ cases' = [mirrorCases' EXCEPT ![q.caseId] = updatedCase(q)]
  <2>1. Relists(p.caseId, (cases[p.caseId].activeDocumentIds \ {p.superseded})
                            \cup {p.documentId})
    BY <1>2, <1>4 DEF Anchors
  <2>2. updatedCase(q) =
          [cases[p.caseId] EXCEPT
             !.activeDocumentIds =
               (cases[p.caseId].activeDocumentIds \ {p.superseded})
                 \cup {p.documentId}]
    BY <1>2, <1>5, <1>6 DEF updatedCase
  <2> QED
    BY <1>5, <1>7, <2>1, <2>2 DEF Relists
<1>9. documents' =
        [d \in DocumentIds |->
           CASE d = p.documentId -> reference
             [] d = p.superseded -> [mirrorDocuments'[d] EXCEPT !.isActive = FALSE]
             [] OTHER -> mirrorDocuments'[d]]
  <2>1. documents \in [DocumentIds -> Documents!DocumentReference \cup {NoDocument}]
    BY DEF SerialInv, BackendInv, ChaincodeInv, ReferencesTyped
  <2>2. CASE p.superseded = Undefined
    BY <1>4, <1>7, <2>1, <2>2, ChaincodeAssumption DEF Anchors
  <2>3. CASE p.superseded # Undefined
    <3>1. p.superseded # p.documentId /\ p.superseded \in DocumentIds
      BY <1>4, <2>3 DEF Anchors, Anchored
    <3> QED
      BY <1>4, <1>7, <2>1, <2>3, <3>1 DEF Anchors
  <2> QED
    BY <2>2, <2>3
<1>10. InStep(q)'
  BY <1>2, <1>5, <1>8, <1>9
  DEF InStep, ReadsCurrent, AnswerPending, SnapshotPending, DocumentPending,
      Pending, BeforeAnchoring
<1> QED
  BY <1>5, <1>10, SerialGoesOn

\* Mirroring writes what the mirror lacks.
LEMMA SerialMirrors ==
  ASSUME SerialInv, BackendInv', NEW r \in Requests,
         mirrorCaseUpdate(r) \/ mirrorDocument(r) \/ mirrorSnapshot(r)
  PROVE  SerialInv'
<1>1. PICK p \in RequestType : p = requests[r] /\ InStep(p)
  BY DEF SerialInv, BackendInv, RequestsSound
<1>2. UNCHANGED cases /\ UNCHANGED events /\ UNCHANGED documents
  BY DEF mirrorCaseUpdate, mirrorDocument, mirrorSnapshot, chaincodeVars, vars
<1>3. ASSUME mirrorCaseUpdate(r) PROVE SerialInv'
  <2>1. Become(r, Idle)
    BY <1>3 DEF mirrorCaseUpdate
  <2>2. InSync'
    BY <1>1, <1>2, <1>3
    DEF mirrorCaseUpdate, persistCaseUpdate, InStep, AnswerPending, InSync
  <2> QED
    BY <2>1, <2>2, SerialEnds
<1>4. ASSUME mirrorDocument(r) PROVE SerialInv'
  <2>1. p.step = "persistDocument"
    BY <1>1, <1>4 DEF mirrorDocument
  <2>2. PICK q :
          /\ Become(r, q)
          /\ q.step = "persistSnapshot"
          /\ q.caseId = p.caseId
          /\ q.documentId = p.documentId
          /\ q.reference = p.reference
          /\ q.currentCase = p.currentCase
    BY <1>1, <1>4, <2>1 DEF mirrorDocument, RequestType
  <2>3. updatedCase(q) = updatedCase(p)
    BY <2>2 DEF updatedCase
  <2>4. /\ UNCHANGED mirrorCases /\ UNCHANGED mirrorEvents
        /\ mirrorDocuments' = documents
    BY <1>1, <1>4, <2>1
    DEF mirrorDocument, persistDocumentUpdate, InStep, DocumentPending
  <2>5. InStep(q)'
    BY <1>1, <1>2, <2>1, <2>2, <2>3, <2>4
    DEF InStep, ReadsCurrent, AnswerPending, SnapshotPending, DocumentPending,
        Pending, BeforeAnchoring
  <2> QED
    BY <2>2, <2>5, SerialGoesOn
<1>5. ASSUME mirrorSnapshot(r) PROVE SerialInv'
  <2>1. Become(r, Idle)
    BY <1>5 DEF mirrorSnapshot
  <2>2. InSync'
    BY <1>1, <1>2, <1>5
    DEF mirrorSnapshot, persistCaseSnapshot, InStep, SnapshotPending, InSync
  <2> QED
    BY <2>1, <2>2, SerialEnds
<1> QED
  BY <1>3, <1>4, <1>5

\* A refused request leaves the mirror in step.
LEMMA SerialRefusals ==
  ASSUME SerialInv, BackendInv', NEW r \in Requests,
         refuseCase(r) \/ refuseAnchor(r)
  PROVE  SerialInv'
<1>1. requests[r].step \notin Pending
  BY DEF refuseCase, refuseAnchor, Pending
<1>2. InSync'
  BY <1>1, StaysInSync DEF SerialInv, InStep, ReadsCurrent, refuseCase, refuseAnchor
<1>3. Become(r, Idle)
  BY DEF refuseCase, refuseAnchor, deleteObject
<1> QED
  BY <1>2, <1>3, SerialEnds

\* Every step of one request at a time keeps the mirror in step.
LEMMA SerialInvNext ==
  SerialInv /\ BackendInv' /\ [BackendNext]_backendVars => SerialInv'
<1> SUFFICES ASSUME SerialInv, BackendInv', [BackendNext]_backendVars
             PROVE  SerialInv'
  OBVIOUS
<1>1. ~MayFail
  BY DEF SerialInv
<1>2. ASSUME NEW r \in Requests, CaseRequest(r)
      PROVE  SerialInv'
  BY <1>1, <1>2, SerialReads, SerialCommits, SerialRefusals, SerialMirrors
  DEF CaseRequest, failCaseUpdate
<1>3. ASSUME NEW r \in Requests, UploadRequest(r)
      PROVE  SerialInv'
  BY <1>1, <1>3, SerialReads, SerialAnchors, SerialRefusals, SerialMirrors
  DEF UploadRequest, failStore, failUpload
<1>4. CASE crash
  BY <1>1, <1>4 DEF crash
<1>5. CASE UNCHANGED backendVars
  BY <1>5 DEF backendVars, chaincodeVars, vars, mirror, SerialInv, InStep,
     ReadsCurrent, AnswerPending, SnapshotPending, DocumentPending, InSync,
     Mirrored, persistEvent
<1> QED
  BY <1>2, <1>3, <1>4, <1>5 DEF BackendNext

\* It holds in every reachable state of a backend with one slot.
LEMMA SerialInvariance ==
  ~MayFail /\ (\E r \in Requests : Requests = {r}) /\ BackendSpec => []SerialInv
<1>1. ~MayFail /\ (\E r \in Requests : Requests = {r}) /\ BackendInit => SerialInv
  <2> SUFFICES ASSUME ~MayFail, \E r \in Requests : Requests = {r}, BackendInit
               PROVE  SerialInv
    OBVIOUS
  <2>1. BackendInv
    BY BackendInvInit
  <2>2. InSync
    BY DEF BackendInit, ChaincodeInit, Init, Documents!Init, InSync
  <2>3. \A r \in Requests : requests[r] = Idle
    BY DEF BackendInit
  <2>4. InStep(Idle)
    BY <2>2 DEF Idle, InStep, ReadsCurrent, AnswerPending, SnapshotPending,
       DocumentPending, BeforeAnchoring
  <2> QED
    BY <2>1, <2>3, <2>4 DEF SerialInv
<1> QED
  BY <1>1, BackendInvariance, SerialInvNext, PTL DEF BackendSpec

\* One request at a time and without failures the mirror is the ledger's copy
\* whenever no request is in flight, as its rows claim (projections.service.ts).
THEOREM SerialMirrorInSync ==
  ~MayFail /\ (\E r \in Requests : Requests = {r}) /\ BackendSpec => []MirrorInSync
<1>1. SerialInv => MirrorInSync
  BY DEF SerialInv, InStep, ReadsCurrent, InSync, MirrorInSync, Quiescent, Idle,
     Pending
<1> QED
  BY <1>1, SerialInvariance, PTL

\* And what is done to a case before the foreign regulator is endorsed by that
\* regulator's peers, although the backend looks at the mirror to tell
\* (resolveWorkflowEndorsers).
THEOREM SerialForeignEndorsement ==
  ~MayFail /\ (\E r \in Requests : Requests = {r}) /\ BackendSpec
    => []ForeignLaneEndorsed
<1>1. SerialInv => ForeignLaneEndorsed
  BY DEF SerialInv, InStep, AnswerPending, ForeignLaneEndorsed
<1> QED
  BY <1>1, SerialInvariance, PTL

=============================================================================
