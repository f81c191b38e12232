------------------------------ MODULE Backend -------------------------------
(***************************************************************************)
(* The backend on a real ledger with a PostgreSQL mirror and MinIO storage *)
(* (cases.service.ts, documents.service.ts, fabric.service.ts,             *)
(* projections.service.ts).  A request is a sequence of steps, one per     *)
(* awaited call; other requests run in between.  It reads the mirror,      *)
(* submits to the ledger and writes the mirror from what it read and was   *)
(* answered.                                                               *)
(*                                                                         *)
(*   mirrorCases, mirrorEvents, mirrorDocuments   the three tables         *)
(*   objects       the documents whose file is stored                      *)
(*   requests      the requests in flight, by slot                         *)
(*                                                                         *)
(* A ledger transaction is one step (FabricLedger shows why it may be).    *)
(* What a request asks for is chosen at the step that first uses it.       *)
(***************************************************************************)
EXTENDS Chaincode

CONSTANTS
  Requests,    \* slots for requests in flight
  MayFail      \* whether databases, connections and the process may fail

VARIABLES
  mirrorCases, mirrorEvents, mirrorDocuments, objects, requests

mirror == <<mirrorCases, mirrorEvents, mirrorDocuments>>

backendVars == <<chaincodeVars, mirror, objects, requests>>

Idle == [step |-> "idle"]

Become(r, request) == requests' = [requests EXCEPT ![r] = request]

-----------------------------------------------------------------------------
(* The invocation plan: who has to endorse a transaction. *)

DOMESTIC_ENDORSERS == {"DomesticNuclearRegulatorMSP", "CoordinatingAuthorityMSP"}
FOREIGN_ENDORSERS == {"CoordinatingAuthorityMSP", "ForeignNuclearRegulatorMSP"}

ForeignActions ==
  {"forward_to_foreign_authority", "record_foreign_review", "approve_case"}

SharedActions == {"request_more_information", "reject_case", "reject_amendment"}

\* Mutant: the state of the case is not looked at.
resolveWorkflowEndorsers_ByActor(action, actor, seenState) ==
  IF \/ action \in ForeignActions
     \/ action \in SharedActions /\ actor.organizationType = "foreign_regulator"
  THEN FOREIGN_ENDORSERS ELSE DOMESTIC_ENDORSERS

\* seenState is the state of the case in the mirror when the request read it.
resolveWorkflowEndorsers(action, actor, seenState) ==
  IF \/ action \in ForeignActions
     \/ /\ action \in SharedActions
        /\ \/ actor.organizationType = "foreign_regulator"
           \/ seenState = "under_foreign_review"
  THEN FOREIGN_ENDORSERS ELSE DOMESTIC_ENDORSERS

\* The transactions whose arguments carry no documents.
PlainActions ==
  {"record_domestic_review", "forward_to_coordination",
   "record_foreign_review", "reject_amendment", "close_case"}

\* The arguments a plan carries: document lists are dropped for plain actions.
PlanArguments(action, arguments) ==
  IF action \in PlainActions THEN {} ELSE arguments

-----------------------------------------------------------------------------
(* The mirror. *)

\* Mutant: one row per case.
persistEvent_Latest(event) ==
  {e \in mirrorEvents : e.caseId # event.caseId} \cup {event}

\* INSERT ... ON CONFLICT (action_id) DO UPDATE.
persistEvent(event) ==
  {e \in mirrorEvents : ~SameEventKey(e, event)} \cup {event}

\* Mutant: the sequence number is kept from going back, the rest is not.
persistCaseUpdate_KeepsSequence(caseId, caseRecord, event) ==
  /\ mirrorCases' =
       [mirrorCases EXCEPT ![caseId] =
          IF @ # NoCase /\ @.auditSequenceNumber > caseRecord.auditSequenceNumber
          THEN [caseRecord EXCEPT
                  !.auditSequenceNumber = mirrorCases[caseId].auditSequenceNumber]
          ELSE caseRecord]
  /\ mirrorEvents' = persistEvent(event)
  /\ UNCHANGED mirrorDocuments

\* persistCaseUpdate: the case and the event, in one database transaction.
persistCaseUpdate(caseId, caseRecord, event) ==
  /\ mirrorCases' = [mirrorCases EXCEPT ![caseId] = caseRecord]
  /\ mirrorEvents' = persistEvent(event)
  /\ UNCHANGED mirrorDocuments

\* persistCaseSnapshot: the case whatever is there.
persistCaseSnapshot(caseId, caseRecord) ==
  /\ mirrorCases' = [mirrorCases EXCEPT ![caseId] = caseRecord]
  /\ UNCHANGED <<mirrorEvents, mirrorDocuments>>

\* Mutant: every other document of the type is taken for a predecessor.
persistDocumentUpdate_ByType(documentId, reference) ==
  /\ mirrorDocuments' =
       [d \in DocumentIds |->
          CASE d = documentId -> reference
            [] /\ d # documentId
               /\ mirrorDocuments[d] # NoDocument
               /\ mirrorDocuments[d].documentType = reference.documentType
                 -> [mirrorDocuments[d] EXCEPT !.isActive = FALSE]
            [] OTHER -> mirrorDocuments[d]]
  /\ UNCHANGED <<mirrorCases, mirrorEvents>>

\* persistDocumentUpdate: the document and, inactive, its predecessor.
persistDocumentUpdate(documentId, reference) ==
  LET superseded == reference.supersedesDocumentId
  IN /\ mirrorDocuments' =
          [d \in DocumentIds |->
             CASE d = documentId -> reference
               [] d = superseded -> [mirrorDocuments[d] EXCEPT !.isActive = FALSE]
               [] OTHER -> mirrorDocuments[d]]
     /\ UNCHANGED <<mirrorCases, mirrorEvents>>

Mirrored(caseId) == mirrorCases[caseId] # NoCase

-----------------------------------------------------------------------------
(* Drafts: createDraft. *)

Reserved == {requests[r].caseId : r \in {q \in Requests : requests[q] # Idle}}

\* The identifier is fresh.  The case number, a count nothing depends on, is
\* left out.
createDraft(r, caseId) ==
  /\ requests[r] = Idle
  /\ ~Exists(caseId) /\ ~Mirrored(caseId) /\ caseId \notin Reserved
  /\ Become(r, [step |-> "createCase", caseId |-> caseId])
  /\ UNCHANGED <<chaincodeVars, mirror, objects>>

\* The result of the transaction, kept until it is mirrored.
Answer(caseId, caseRecord, event, endorsers) ==
  [step |-> "persistCaseUpdate", caseId |-> caseId, caseRecord |-> caseRecord,
   event |-> event, endorsers |-> endorsers]

relayCreateCase(r, actor) ==
  LET request == requests[r]
  IN
  /\ request.step = "createCase"
  /\ createCase(request.caseId, actor)
  /\ \/ Become(r, Answer(request.caseId, DraftCase,
          [caseId |-> request.caseId, sequence |-> 1,
           actionType |-> "create_case",
           previousState |-> Undefined, newState |-> "draft"],
          resolveWorkflowEndorsers("create_case", actor, Undefined)))
     \/ MayFail /\ Become(r, Idle)     \* the commit status is lost
  /\ UNCHANGED <<documents, caseDocuments, mirror, objects>>

-----------------------------------------------------------------------------
(* Transitions: transitionCase. *)

\* getCase: the plan will be built from the record read here.
readCase(r, caseId) ==
  /\ requests[r] = Idle
  /\ Mirrored(caseId)
  /\ Become(r, [step |-> "transitionCase", caseId |-> caseId,
                seenState |-> mirrorCases[caseId].currentState])
  /\ UNCHANGED <<chaincodeVars, mirror, objects>>

\* deriveDocumentTypes: the types of documents that are all in the mirror.
deriveDocumentTypes(ids) == {mirrorDocuments[d].documentType : d \in ids}

Derivable(ids) == \A d \in ids : mirrorDocuments[d] # NoDocument

relayTransition(r, rule, actor, types, ids, justified) ==
  LET request == requests[r]
      caseId == request.caseId
  IN
  /\ request.step = "transitionCase"
  /\ performTransition(caseId, rule, actor, PlanArguments(rule.action, types),
                       PlanArguments(rule.action, ids), justified)
  /\ \/ Become(r, Answer(caseId, cases'[caseId],
          [caseId |-> caseId,
           sequence |-> cases'[caseId].auditSequenceNumber,
           actionType |-> rule.action,
           previousState |-> cases[caseId].currentState,
           newState |-> cases'[caseId].currentState],
          resolveWorkflowEndorsers(rule.action, actor, request.seenState)))
     \/ MayFail /\ Become(r, Idle)     \* the commit status is lost
  /\ UNCHANGED <<documents, caseDocuments, mirror, objects>>

\* The caller names document types, or leaves them to the mirror.
transitionCase(r, rule, actor, ids, justified) ==
  \/ \E types \in DocumentTypeClaims :
       relayTransition(r, rule, actor, types, ids, justified)
  \/ /\ Derivable(ids)
     /\ relayTransition(r, rule, actor, deriveDocumentTypes(ids), ids, justified)

\* The contract refuses the transaction: the caller gets the error.
refuseCase(r) ==
  /\ requests[r].step \in {"createCase", "transitionCase"}
  /\ Become(r, Idle)
  /\ UNCHANGED <<chaincodeVars, mirror, objects>>

mirrorCaseUpdate(r) ==
  LET request == requests[r]
  IN
  /\ request.step = "persistCaseUpdate"
  /\ persistCaseUpdate(request.caseId, request.caseRecord, request.event)
  /\ Become(r, Idle)
  /\ UNCHANGED <<chaincodeVars, objects>>

-----------------------------------------------------------------------------
(* Uploads: uploadDocument. *)

Uploading ==
  {requests[r].documentId : r \in
     {q \in Requests : requests[q].step \in
        {"storeObject", "anchor", "persistDocument", "persistSnapshot"}}}

\* The record and, for a new version, its predecessor are read.  Of the latter
\* only the fields that never change are used.
readForUpload(r, caseId, documentId, superseded) ==
  /\ requests[r] = Idle
  /\ Mirrored(caseId)
  /\ documents[documentId] = NoDocument /\ documentId \notin objects
  /\ documentId \notin Uploading
  /\ superseded # Undefined => mirrorDocuments[superseded] # NoDocument
  /\ Become(r, [step |-> "storeObject", caseId |-> caseId,
                documentId |-> documentId, superseded |-> superseded,
                version |-> IF superseded = Undefined THEN 1
                            ELSE mirrorDocuments[superseded].version + 1,
                currentCase |-> mirrorCases[caseId]])
  /\ UNCHANGED <<chaincodeVars, mirror, objects>>

\* Mutant: the store keeps the file of the latest version only.
storeObject_LatestVersion(r) ==
  /\ requests[r].step = "storeObject"
  /\ objects' =
       (objects \ {requests[r].superseded}) \cup {requests[r].documentId}
  /\ Become(r, [requests[r] EXCEPT !.step = "anchor"])
  /\ UNCHANGED <<chaincodeVars, mirror>>

storeObject(r) ==
  /\ requests[r].step = "storeObject"
  /\ objects' = objects \cup {requests[r].documentId}
  /\ Become(r, [requests[r] EXCEPT !.step = "anchor"])
  /\ UNCHANGED <<chaincodeVars, mirror>>

\* The catch block: the stored file is deleted, whatever has failed.  The
\* deletion may fail too.
deleteObject(r) ==
  /\ \/ objects' = objects \ {requests[r].documentId}
     \/ MayFail /\ UNCHANGED objects
  /\ Become(r, Idle)

anchor(r, documentType, sha256Hash, actor) ==
  LET request == requests[r]
      reference == [caseId |-> request.caseId, documentType |-> documentType,
                    sha256Hash |-> sha256Hash, version |-> request.version,
                    supersedesDocumentId |-> request.superseded,
                    isActive |-> TRUE]
  IN
  /\ request.step = "anchor"
  /\ IF request.superseded = Undefined
     THEN Documents!addDocumentReference(request.documentId, reference, actor)
     ELSE Documents!updateDocumentVersion(request.documentId, reference, actor)
  /\ \/ /\ Become(r, [step |-> "persistDocument", caseId |-> request.caseId,
                      documentId |-> request.documentId,
                      reference |-> reference,
                      currentCase |-> request.currentCase])
        /\ UNCHANGED objects
     \/ MayFail /\ deleteObject(r)     \* the commit status is lost
  /\ UNCHANGED <<stateIndex, events, mirror>>

\* The contract or the relay's own checks refuse the reference.
refuseAnchor(r) ==
  /\ requests[r].step = "anchor"
  /\ deleteObject(r)
  /\ UNCHANGED <<chaincodeVars, mirror>>

\* Mutant: the request ends once the document is mirrored.
mirrorDocument_Ends(r) ==
  /\ requests[r].step = "persistDocument"
  /\ persistDocumentUpdate(requests[r].documentId, requests[r].reference)
  /\ Become(r, Idle)
  /\ UNCHANGED <<chaincodeVars, objects>>

mirrorDocument(r) ==
  LET request == requests[r]
  IN
  /\ request.step = "persistDocument"
  /\ persistDocumentUpdate(request.documentId, request.reference)
  /\ Become(r, [request EXCEPT !.step = "persistSnapshot"])
  /\ UNCHANGED <<chaincodeVars, objects>>

\* Mutant: the predecessor stays among the active documents.
updatedCase_KeepsPrevious(request) ==
  [request.currentCase EXCEPT
     !.activeDocumentIds = @ \cup {request.documentId}]

\* The record read before the upload with the document added.
updatedCase(request) ==
  [request.currentCase EXCEPT
     !.activeDocumentIds =
       (@ \ {request.reference.supersedesDocumentId}) \cup {request.documentId}]

mirrorSnapshot(r) ==
  /\ requests[r].step = "persistSnapshot"
  /\ persistCaseSnapshot(requests[r].caseId, updatedCase(requests[r]))
  /\ Become(r, Idle)
  /\ UNCHANGED <<chaincodeVars, objects>>

-----------------------------------------------------------------------------
(* Failures. *)

\* A database error while a case is mirrored: the request ends with an error.
failCaseUpdate(r) ==
  /\ MayFail
  /\ requests[r].step = "persistCaseUpdate"
  /\ Become(r, Idle)
  /\ UNCHANGED <<chaincodeVars, mirror, objects>>

\* The store fails, with or without the file in it: nothing is cleaned up.
failStore(r) ==
  /\ MayFail
  /\ requests[r].step = "storeObject"
  /\ objects' \in {objects, objects \cup {requests[r].documentId}}
  /\ Become(r, Idle)
  /\ UNCHANGED <<chaincodeVars, mirror>>

\* A database error while an upload is mirrored: the file is deleted.
failUpload(r) ==
  /\ MayFail
  /\ requests[r].step \in {"persistDocument", "persistSnapshot"}
  /\ deleteObject(r)
  /\ UNCHANGED <<chaincodeVars, mirror>>

\* The process stops: what is in flight is forgotten, nothing is replayed.
crash ==
  /\ MayFail
  /\ requests' = [r \in Requests |-> Idle]
  /\ UNCHANGED <<chaincodeVars, mirror, objects>>

-----------------------------------------------------------------------------
BackendInit ==
  /\ ChaincodeInit
  /\ mirrorCases = [c \in CaseIds |-> NoCase]
  /\ mirrorEvents = {}
  /\ mirrorDocuments = [d \in DocumentIds |-> NoDocument]
  /\ objects = {}
  /\ requests = [r \in Requests |-> Idle]

CaseRequest(r) ==
  \/ \E caseId \in CaseIds : createDraft(r, caseId) \/ readCase(r, caseId)
  \/ \E actor \in Actors : relayCreateCase(r, actor)
  \/ \E rule \in TRANSITIONS, actor \in Actors, ids \in SUBSET DocumentIds,
        justified \in BOOLEAN : transitionCase(r, rule, actor, ids, justified)
  \/ refuseCase(r)
  \/ mirrorCaseUpdate(r)
  \/ failCaseUpdate(r)

UploadRequest(r) ==
  \/ \E caseId \in CaseIds, documentId \in DocumentIds,
        superseded \in DocumentIds \cup {Undefined} :
       readForUpload(r, caseId, documentId, superseded)
  \/ storeObject(r)
  \/ \E documentType \in AnchoredTypes, sha256Hash \in Hashes, actor \in Actors :
       anchor(r, documentType, sha256Hash, actor)
  \/ refuseAnchor(r)
  \/ mirrorDocument(r)
  \/ mirrorSnapshot(r)
  \/ failStore(r)
  \/ failUpload(r)

BackendNext == crash \/ \E r \in Requests : CaseRequest(r) \/ UploadRequest(r)

BackendSpec == BackendInit /\ [][BackendNext]_backendVars

\* The store and the database answer, and the request goes on.  Clients need
\* not send requests, and the ledger need not accept them.
Continue(r) ==
  mirrorCaseUpdate(r) \/ storeObject(r) \/ mirrorDocument(r) \/ mirrorSnapshot(r)

BackendFairSpec ==
  BackendSpec /\ \A r \in Requests : WF_backendVars(Continue(r))

-----------------------------------------------------------------------------
(* What holds whatever fails and however requests interleave. *)

\* The mirror never invents history: each of its events is on the ledger, and
\* the case it shows is in a state the ledger had it in at that sequence
\* number, although answers are mirrored late, out of order or not at all.
MirrorShowsPast ==
  /\ mirrorEvents \subseteq events
  /\ \A caseId \in CaseIds : Mirrored(caseId) =>
       \E e \in Trail(caseId) :
         /\ e.sequence = mirrorCases[caseId].auditSequenceNumber
         /\ e.newState = mirrorCases[caseId].currentState

\* A document of the mirror is the ledger's; the mirror may show a superseded
\* version as active but never an active one as superseded.
MirrorDocumentsSound ==
  \A d \in DocumentIds : mirrorDocuments[d] # NoDocument =>
    /\ documents[d] # NoDocument
    /\ [mirrorDocuments[d] EXCEPT !.isActive = TRUE]
         = [documents[d] EXCEPT !.isActive = TRUE]
    /\ documents[d].isActive => mirrorDocuments[d].isActive

-----------------------------------------------------------------------------
(* What the requests promise when nothing else interferes. *)

Quiescent == \A r \in Requests : requests[r] = Idle

\* Once every request has been answered the mirror is the ledger's copy: cases,
\* events and documents.  Each row is stored as "in_sync"
\* (projections.service.ts:249).
MirrorInSync ==
  Quiescent =>
    <<mirrorCases, mirrorEvents, mirrorDocuments>> = <<cases, events, documents>>

\* What the ledger commits reaches the mirror: the mirror falls behind at each
\* commit and always catches up, although nothing but the request that
\* submitted the transaction ever writes it.
MirrorCatchesUp ==
  <<mirrorCases, mirrorEvents, mirrorDocuments>> # <<cases, events, documents>>
    ~> <<mirrorCases, mirrorEvents, mirrorDocuments>> = <<cases, events, documents>>

\* verifyDocument can always fetch the file: "Off-chain files remain verifiable
\* against anchored references" (security-evidence-register.md:10), and only a
\* failed anchoring is cleaned up after (storage.service.ts:112).
AnchoredFileKept ==
  \A d \in DocumentIds : documents[d] # NoDocument => d \in objects

\* A step taken while a case was before the foreign regulator was endorsed by
\* the foreign regulator's peers.
ForeignLaneEndorsed ==
  \A r \in Requests :
    /\ requests[r].step = "persistCaseUpdate"
    /\ requests[r].event.previousState = "under_foreign_review"
    => "ForeignNuclearRegulatorMSP" \in requests[r].endorsers

=============================================================================
